---- MODULE Spec2Model ----
(***************************************************************************)
(* Storage engine (datasets / columns / cells in one SQL database behind   *)
(* two mutexes), the prompt materializer and the cell-generation pipeline  *)
(* of the desktop application.                                             *)
(*                                                                         *)
(* Strings are sequences of one-character strings ("{{A}}" is              *)
(* <<"{","{","A","}","}">>), Option<T> is a sequence of length at most 1   *)
(* (None == << >>, Some(x) == <<x>>).                                      *)
(*                                                                         *)
(* Dataset and column ids are fresh UUIDs; they are modelled by counters   *)
(* (nextDs, nextCol) so that an id is never handed out twice.  A cell's id *)
(* is a fresh UUID too and nothing ever refers to it: the PRIMARY KEY(id)  *)
(* of table cells therefore never conflicts and the table is the bag       *)
(* (multiset) of its remaining fields, which is how `cells` is modelled.   *)
(* The timestamps of a dataset are integers (the clock reading handed to   *)
(* Dataset::new); the table holds them in their RFC 3339 text form.  The   *)
(* timestamps of columns and cells are not modelled.                       *)
(***************************************************************************)
EXTENDS Integers, Sequences, FiniteSets, Bags, TLC

(* ------------------------------ bounds --------------------------------- *)
\* update_cell draws its row_index from 0..MaxRow
MaxRow == 1
\* in the storage-only specification update_cell adds a cell only while the
\* table holds fewer than MaxCells cells
MaxCells == 2
\* in the storage-only specification import_csv creates columns only while
\* their ids stay at or below MaxColumnId
MaxColumnId == 4
\* the largest id create_dataset hands out in the import/export runs
MaxDatasetId == 4
\* a prompt template of the materialization runs is made of at most MaxParts parts
MaxParts == 3

(* ------------------------------ values --------------------------------- *)
None == << >>
Some(x) == <<x>>
IsSome(o) == Len(o) = 1
Unwrap(o) == o[1]

NoProc == "none"
CmdProcs == {"c1", "c2"}
GenProc == "g"

\* the strings used as inputs
StrA == <<"A">>
StrO == <<"O">>
StrU == <<"u">>
StrG == <<"g">>
TemplateA == <<"{", "{", "A", "}", "}">>

VARIABLES
    datasets,   \* table datasets: set of records
    columns,    \* table columns: set of records
    cells,      \* table cells: bag of records (see above)
    nextDs,     \* next fresh dataset id
    nextCol,    \* next fresh column id
    dbLock,     \* holder of the DatabaseState mutex (Mutex<Database>)
    connLock,   \* holder of the connection mutex (Mutex<Connection>)
    cmd,        \* per command process: its position and its storage call
    gen,        \* locals of the generate_column_cells invocation
    calls,      \* generation calls issued to the provider and not yet answered
    hist        \* history of the current run: outcome per loop iteration

vars == <<datasets, columns, cells, nextDs, nextCol, dbLock, connLock, cmd, gen, calls, hist>>
store == <<datasets, columns, cells, nextDs, nextCol>>

\* the database as one value
DB == [datasets |-> datasets, columns |-> columns, cells |-> cells]

(* ------------------------------ models --------------------------------- *)
\* now is the clock reading Utc::now() at the call
Dataset_new(id, name, description, now) ==
    [id |-> id, name |-> name, description |-> description,
     created_at |-> now, updated_at |-> now]

Column_new(id, dataset_id, name, column_type, position) ==
    [id |-> id, dataset_id |-> dataset_id, name |-> name, column_type |-> column_type,
     prompt |-> None, position |-> position]

with_prompt(column, p) == [column EXCEPT !.prompt = Some(p)]

Cell_new(dataset_id, column_id, row_index) ==
    [dataset_id |-> dataset_id, column_id |-> column_id, row_index |-> row_index,
     value |-> None, status |-> "pending", error |-> None]

with_value(cell, v) == [cell EXCEPT !.value = Some(v), !.status = "completed"]

with_error(cell, e) == [cell EXCEPT !.error = Some(e), !.status = "error"]

(* --------------------------- table helpers ----------------------------- *)
CellSet(db) == BagToSet(db.cells)

DatasetIds(db) == {d.id : d \in db.datasets}
ColumnIds(db) == {c.id : c \in db.columns}

SameTriple(a, b) ==
    /\ a.dataset_id = b.dataset_id
    /\ a.column_id = b.column_id
    /\ a.row_index = b.row_index

\* the rows of bag B that satisfy Keep
BagFilter(B, Keep(_)) ==
    LET S == {x \in BagToSet(B) : Keep(x)}
    IN  [x \in S |-> B[x]]

Ok(db, val) == [ok |-> TRUE, db |-> db, val |-> val]
Err(db, msg) == [ok |-> FALSE, db |-> db, val |-> msg]

\* the elements of bag B, one pair <<x, i>> per copy
Copies(B) == UNION {{<<x, i>> : i \in 1..B[x]} : x \in BagToSet(B)}

\* every ordering of the tuples in S that is ascending in their first component
RECURSIVE Ascending(_)
Ascending(S) ==
    IF S = {} THEN {<< >>}
    ELSE LET least == {x \in S : \A y \in S : x[1] <= y[1]}
         IN  UNION {{<<x>> \o p : p \in Ascending(S \ {x})} : x \in least}

\* ORDER BY key: every ordering of the rows of bag B that is ascending in Key
\* (SQL leaves the order of rows with equal keys open)
OrderBy(B, Key(_)) ==
    {[i \in 1..Len(p) |-> p[i][2]] :
        p \in Ascending({<<Key(c[1]), c[1], c[2]>> : c \in Copies(B)})}

(* ------------------------- dataset operations -------------------------- *)
\* DateTime::to_rfc3339 and str::parse::<DateTime<Utc>>: the text form of a
\* timestamp, and the Option of the timestamp a text stands for
to_rfc3339(t) == <<"rfc3339", t>>
parse_rfc3339(s) == IF Len(s) = 2 /\ s[1] = "rfc3339" THEN Some(s[2]) ELSE None

\* an insert that stores no description
create_dataset_NoDescription(db, dataset) ==
    IF dataset.id \in DatasetIds(db)
    THEN Err(db, "constraint")
    ELSE Ok([db EXCEPT !.datasets = @ \cup
                 {[id |-> dataset.id, name |-> dataset.name, description |-> None,
                   created_at |-> to_rfc3339(dataset.created_at),
                   updated_at |-> to_rfc3339(dataset.updated_at)]}], dataset)

\* INSERT INTO datasets (id, name, description, created_at, updated_at); id is
\* the table's PRIMARY KEY
create_dataset(db, dataset) ==
    IF dataset.id \in DatasetIds(db)
    THEN Err(db, "constraint")
    ELSE Ok([db EXCEPT !.datasets = @ \cup
                 {[id |-> dataset.id, name |-> dataset.name,
                   description |-> dataset.description,
                   created_at |-> to_rfc3339(dataset.created_at),
                   updated_at |-> to_rfc3339(dataset.updated_at)]}], dataset)

\* the query_row closure of get_dataset: Ok(Dataset) or the conversion failure
DatasetFromRow(r) ==
    IF parse_rfc3339(r.created_at) = None \/ parse_rfc3339(r.updated_at) = None
    THEN [ok |-> FALSE, val |-> "FromSqlConversionFailure"]
    ELSE [ok |-> TRUE,
          val |-> [id |-> r.id, name |-> r.name, description |-> r.description,
                   created_at |-> Unwrap(parse_rfc3339(r.created_at)),
                   updated_at |-> Unwrap(parse_rfc3339(r.updated_at))]]

\* SELECT ... FROM datasets WHERE id = ?: Ok(Some(dataset)), Ok(None) when no row
\* is returned, Err otherwise
get_dataset_Result(db, dataset_id) ==
    LET found == {d \in db.datasets : d.id = dataset_id}
    IN  IF found = {} THEN [ok |-> TRUE, val |-> None]
        ELSE LET r == DatasetFromRow(CHOOSE d \in found : TRUE)
             IN  IF r.ok THEN [ok |-> TRUE, val |-> Some(r.val)] ELSE r

\* the Option inside the Ok of get_dataset
get_dataset(db, dataset_id) ==
    LET r == get_dataset_Result(db, dataset_id)
    IN  IF r.ok THEN r.val ELSE None

\* a delete that reports an id it does not find
delete_dataset_Strict(db, dataset_id) ==
    IF dataset_id \notin DatasetIds(db) THEN Err(db, "not found")
    ELSE LET gone == {c.id : c \in {k \in db.columns : k.dataset_id = dataset_id}}
             Keep(x) == x.dataset_id # dataset_id /\ x.column_id \notin gone
         IN  Ok([datasets |-> {d \in db.datasets : d.id # dataset_id},
                 columns  |-> {c \in db.columns : c.dataset_id # dataset_id},
                 cells    |-> BagFilter(db.cells, Keep)], None)

\* DELETE FROM datasets WHERE id = ?, with the schema's ON DELETE CASCADE from
\* columns.dataset_id, cells.dataset_id and cells.column_id
delete_dataset(db, dataset_id) ==
    LET gone == {c.id : c \in {k \in db.columns : k.dataset_id = dataset_id}}
        Keep(x) == x.dataset_id # dataset_id /\ x.column_id \notin gone
    IN  Ok([datasets |-> {d \in db.datasets : d.id # dataset_id},
            columns  |-> {c \in db.columns : c.dataset_id # dataset_id},
            cells    |-> BagFilter(db.cells, Keep)], None)

\* an add_column that also stamps the owning dataset as updated
add_column_Touch(db, column) ==
    IF column.id \in ColumnIds(db) \/ column.dataset_id \notin DatasetIds(db)
    THEN Err(db, "constraint")
    ELSE Ok([db EXCEPT !.columns = @ \cup {column},
                       !.datasets = {IF d.id = column.dataset_id
                                     THEN [d EXCEPT !.updated_at =
                                               to_rfc3339(Unwrap(parse_rfc3339(@)) + 1)]
                                     ELSE d : d \in @}], column)

(* -------------------------- column operations -------------------------- *)
\* INSERT INTO columns; PRIMARY KEY(id), FOREIGN KEY(dataset_id)
add_column(db, column) ==
    IF column.id \in ColumnIds(db) \/ column.dataset_id \notin DatasetIds(db)
    THEN Err(db, "constraint")
    ELSE Ok([db EXCEPT !.columns = @ \cup {column}], column)

ColPosition(c) == c.position

\* a column list in insertion order (ids are handed out in increasing order)
ColId(c) == c.id
list_columns_ByInsertion(db, dataset_id) ==
    OrderBy(SetToBag({c \in db.columns : c.dataset_id = dataset_id}), ColId)

\* SELECT ... FROM columns WHERE dataset_id = ? ORDER BY position:
\* the set of results the query may return
list_columns(db, dataset_id) ==
    OrderBy(SetToBag({c \in db.columns : c.dataset_id = dataset_id}), ColPosition)

\* a delete of the column row alone, without the cascade to cells.column_id
delete_column_NoCascade(db, column_id) ==
    Ok([db EXCEPT !.columns = {c \in @ : c.id # column_id}], None)

\* DELETE FROM columns WHERE id = ?, cascading to cells.column_id
delete_column(db, column_id) ==
    LET Keep(x) == x.column_id # column_id
    IN  Ok([db EXCEPT !.columns = {c \in @ : c.id # column_id},
                      !.cells = BagFilter(@, Keep)], None)

(* --------------------------- cell operations --------------------------- *)
\* INSERT INTO cells without OR REPLACE and without the UNIQUE constraint
upsert_cell_Insert(db, cell) ==
    IF cell.dataset_id \notin DatasetIds(db) \/ cell.column_id \notin ColumnIds(db)
    THEN Err(db, "constraint")
    ELSE Ok([db EXCEPT !.cells = @ (+) SetToBag({cell})], None)

\* an upsert that updates value and status of the stored row and keeps its error
upsert_cell_KeepError(db, cell) ==
    IF cell.dataset_id \notin DatasetIds(db) \/ cell.column_id \notin ColumnIds(db)
    THEN Err(db, "constraint")
    ELSE LET Keep(x) == ~SameTriple(x, cell)
             old == {x \in CellSet(db) : SameTriple(x, cell)}
             new == IF old = {} THEN cell
                    ELSE [cell EXCEPT !.error = (CHOOSE x \in old : TRUE).error]
         IN  Ok([db EXCEPT !.cells = BagFilter(@, Keep) (+) SetToBag({new})], None)

\* an upsert that keeps the stored value when the new row has none
upsert_cell_KeepValue(db, cell) ==
    IF cell.dataset_id \notin DatasetIds(db) \/ cell.column_id \notin ColumnIds(db)
    THEN Err(db, "constraint")
    ELSE LET Keep(x) == ~SameTriple(x, cell)
             old == {x \in CellSet(db) : SameTriple(x, cell)}
             new == IF old = {} \/ cell.value # None THEN cell
                    ELSE [cell EXCEPT !.value = (CHOOSE x \in old : TRUE).value]
         IN  Ok([db EXCEPT !.cells = BagFilter(@, Keep) (+) SetToBag({new})], None)

\* an upsert that does not check the FOREIGN KEYs of the row
upsert_cell_NoForeignKey(db, cell) ==
    LET Keep(x) == ~SameTriple(x, cell)
    IN  Ok([db EXCEPT !.cells = BagFilter(@, Keep) (+) SetToBag({cell})], None)

\* INSERT OR REPLACE INTO cells: the row is checked against both FOREIGN KEYs,
\* the stored rows that conflict on UNIQUE(dataset_id, column_id, row_index)
\* are replaced by it
upsert_cell(db, cell) ==
    IF cell.dataset_id \notin DatasetIds(db) \/ cell.column_id \notin ColumnIds(db)
    THEN Err(db, "constraint")
    ELSE LET Keep(x) == ~SameTriple(x, cell)
         IN  Ok([db EXCEPT !.cells = BagFilter(@, Keep) (+) SetToBag({cell})], None)

CellRowIndex(c) == c.row_index

\* SELECT ... FROM cells WHERE column_id = ? ORDER BY row_index
get_column_cells(db, column_id) ==
    LET Keep(x) == x.column_id = column_id
    IN  OrderBy(BagFilter(db.cells, Keep), CellRowIndex)

\* a row count that counts the cells: COUNT(*) in place of COUNT(DISTINCT row_index)
count_rows_AllCells(db, dataset_id) ==
    BagCardinality(BagFilter(db.cells, LAMBDA c : c.dataset_id = dataset_id))

\* SELECT COUNT(DISTINCT row_index) FROM cells WHERE dataset_id = ?
count_rows(db, dataset_id) ==
    Cardinality({c.row_index : c \in {x \in CellSet(db) : x.dataset_id = dataset_id}})

(* ------------------------------ row views ------------------------------ *)
\* the ascending sequence of the finite set of integers S
RECURSIVE SortedSeq(_)
SortedSeq(S) ==
    IF S = {} THEN << >>
    ELSE LET m == CHOOSE x \in S : \A y \in S : x <= y
         IN  <<m>> \o SortedSeq(S \ {m})

\* `x as usize` for an i32 x: a negative x wraps to a value above 2^63, beyond
\* the length of any Vec; Huge stands for it
Huge == 2147483647
AsUsize(x) == IF x >= 0 THEN x ELSE Huge

\* Iterator::skip and Iterator::take on a sequence
Skip(s, n) == IF n >= Len(s) THEN << >> ELSE SubSeq(s, n + 1, Len(s))
Take(s, n) == IF n >= Len(s) THEN s ELSE SubSeq(s, 1, n)

\* Row::new(index) followed by add_cell(column_id, cell) for every cell of the row
Row_of(index, rowCells) ==
    [index |-> index,
     cells |-> [k \in {c.column_id : c \in rowCells} |->
                   CHOOSE c \in rowCells : c.column_id = k]]

\* Row::get_cell_value
get_cell_value(row, column_id) ==
    IF column_id \in DOMAIN row.cells THEN row.cells[column_id].value ELSE None

\* limit and offset are Option<i32>
get_dataset_rows(db, dataset_id, limit, offset) ==
    IF list_columns(db, dataset_id) = {<< >>} THEN << >>
    ELSE LET mine == {c \in CellSet(db) : c.dataset_id = dataset_id}
             idx  == SortedSeq({c.row_index : c \in mine})
             rows == [i \in 1..Len(idx) |->
                         Row_of(idx[i], {c \in mine : c.row_index = idx[i]})]
             off  == AsUsize(IF IsSome(offset) THEN Unwrap(offset) ELSE 0)
         IN  IF IsSome(limit)
             THEN Take(Skip(rows, off), AsUsize(Unwrap(limit)))
             ELSE Skip(rows, off)

\* the set of results get_table_view may return (one per admissible column order)
get_table_view(db, dataset_id, limit, offset) ==
    LET ds == get_dataset(db, dataset_id)
    IN  IF ds = None THEN {None}
        ELSE {Some([dataset |-> Unwrap(ds), columns |-> cols,
                    rows |-> get_dataset_rows(db, dataset_id, limit, offset)]) :
                 cols \in list_columns(db, dataset_id)}

(* ------------------------------- import -------------------------------- *)
\* a header loop that gives every new column position 0
RECURSIVE ImportColumns_SamePosition(_, _, _, _, _)
ImportColumns_SamePosition(db, next, dataset_id, headers, pos) ==
    IF pos >= Len(headers) THEN [ok |-> TRUE, db |-> db, next |-> next]
    ELSE LET r == add_column(db, Column_new(next, dataset_id, headers[pos + 1],
                                            "input", 0))
         IN  IF ~r.ok THEN [ok |-> FALSE, db |-> db, next |-> next]
             ELSE ImportColumns_SamePosition(r.db, next + 1, dataset_id, headers,
                                             pos + 1)

\* the loop over the headers: one Input column per header, with a fresh id;
\* [ok, db, next] where next is the next unused column id
RECURSIVE ImportColumns(_, _, _, _, _)
ImportColumns(db, next, dataset_id, headers, pos) ==
    IF pos >= Len(headers) THEN [ok |-> TRUE, db |-> db, next |-> next]
    ELSE LET r == add_column(db, Column_new(next, dataset_id, headers[pos + 1],
                                            "input", pos))
         IN  IF ~r.ok THEN [ok |-> FALSE, db |-> db, next |-> next]
             ELSE ImportColumns(r.db, next + 1, dataset_id, headers, pos + 1)

\* the loops over the data rows and their fields, given the column list
RECURSIVE ImportCells(_, _, _, _, _, _)
ImportCells(db, dataset_id, cols, rows, row_idx, col_idx) ==
    IF row_idx >= Len(rows) THEN Ok(db, None)
    ELSE IF col_idx >= Len(rows[row_idx + 1])
    THEN ImportCells(db, dataset_id, cols, rows, row_idx + 1, 0)
    ELSE IF col_idx < Len(cols)
    THEN LET cell == with_value(Cell_new(dataset_id, cols[col_idx + 1].id, row_idx),
                                rows[row_idx + 1][col_idx + 1])
             r == upsert_cell(db, cell)
         IN  IF ~r.ok THEN Err(db, "constraint")
             ELSE ImportCells(r.db, dataset_id, cols, rows, row_idx, col_idx + 1)
    ELSE ImportCells(db, dataset_id, cols, rows, row_idx, col_idx + 1)

\* an import that accepts an empty input and does nothing
import_csv_data_AcceptEmpty(db, next, dataset_id, csv_data) ==
    IF csv_data = << >> THEN {[ok |-> TRUE, db |-> db, next |-> next]}
    ELSE LET headers == csv_data[1]
             rows == Tail(csv_data)
             a == ImportColumns(db, next, dataset_id, headers, 0)
         IN  IF ~a.ok THEN {a}
             ELSE {LET r == ImportCells(a.db, dataset_id, cols, rows, 0, 0)
                   IN  [ok |-> r.ok, db |-> r.db, next |-> a.next] :
                      cols \in list_columns(a.db, dataset_id)}

\* the set of outcomes [ok, db, next] (one per admissible column order)
import_csv_data(db, next, dataset_id, csv_data) ==
    IF csv_data = << >> THEN {[ok |-> FALSE, db |-> db, next |-> next]}
    ELSE LET headers == csv_data[1]
             rows == Tail(csv_data)
             a == ImportColumns(db, next, dataset_id, headers, 0)
         IN  IF ~a.ok THEN {a}
             ELSE {LET r == ImportCells(a.db, dataset_id, cols, rows, 0, 0)
                   IN  [ok |-> r.ok, db |-> r.db, next |-> a.next] :
                      cols \in list_columns(a.db, dataset_id)}

(* ------------------------------- export -------------------------------- *)
\* Option::unwrap_or_default for Option<String>
unwrap_or_default(o) == IF IsSome(o) THEN Unwrap(o) ELSE << >>

\* the records export_csv hands to the csv writer, header record first; one
\* result per column order get_table_view may return
export_csv(db, dataset_id) ==
    {IF v = None THEN [ok |-> FALSE, val |-> "Dataset not found"]
     ELSE LET table_view == Unwrap(v)
              cols == table_view.columns
              headers == [i \in 1..Len(cols) |-> cols[i].name]
              record(row) == [i \in 1..Len(cols) |->
                                 unwrap_or_default(get_cell_value(row, cols[i].id))]
          IN  [ok |-> TRUE,
               val |-> <<headers>> \o [r \in 1..Len(table_view.rows) |->
                                          record(table_view.rows[r])]] :
        v \in get_table_view(db, dataset_id, None, None)}

(* -------------------------- prompt materializer ------------------------ *)
\* first index >= i of s that holds "}", or Len(s) + 1
RECURSIVE NextClose(_, _)
NextClose(s, i) ==
    IF i > Len(s) THEN Len(s) + 1
    ELSE IF s[i] = "}" THEN i ELSE NextClose(s, i + 1)

\* does \{\{([^}]+)\}\} match s at index i; the match then ends before MatchEnd
MatchAt(s, i) ==
    LET j == NextClose(s, i + 2)
    IN  /\ i + 1 <= Len(s)
        /\ s[i] = "{" /\ s[i + 1] = "{"
        /\ j > i + 2
        /\ j + 1 <= Len(s)
        /\ s[j + 1] = "}"
MatchEnd(s, i) == NextClose(s, i + 2) + 2
MatchGroup(s, i) == SubSeq(s, i + 2, NextClose(s, i + 2) - 1)

\* Regex::captures_iter: group 1 of the successive non-overlapping matches
RECURSIVE captures_iter(_, _)
captures_iter(s, i) ==
    IF i > Len(s) THEN << >>
    ELSE IF MatchAt(s, i)
         THEN <<MatchGroup(s, i)>> \o captures_iter(s, MatchEnd(s, i))
         ELSE captures_iter(s, i + 1)

\* str::trim
RECURSIVE TrimStart(_)
TrimStart(s) == IF s # << >> /\ Head(s) = " " THEN TrimStart(Tail(s)) ELSE s
RECURSIVE TrimEnd(_)
TrimEnd(s) ==
    IF s # << >> /\ s[Len(s)] = " " THEN TrimEnd(SubSeq(s, 1, Len(s) - 1)) ELSE s
Trim(s) == TrimEnd(TrimStart(s))

IsPrefixAt(s, pat, i) ==
    /\ i + Len(pat) - 1 <= Len(s)
    /\ SubSeq(s, i, i + Len(pat) - 1) = pat

\* str::replace: every non-overlapping occurrence of pat, left to right
RECURSIVE Replace(_, _, _, _)
Replace(s, pat, val, i) ==
    IF i > Len(s) THEN << >>
    ELSE IF IsPrefixAt(s, pat, i)
         THEN val \o Replace(s, pat, val, i + Len(pat))
         ELSE <<s[i]>> \o Replace(s, pat, val, i + 1)

\* [String]::join
RECURSIVE Join(_, _)
Join(names, sep) ==
    IF names = << >> THEN << >>
    ELSE IF Len(names) = 1 THEN names[1]
    ELSE names[1] \o sep \o Join(Tail(names), sep)

\* columns.iter().find(|c| c.name == name): index of the first match, or 0
RECURSIVE FindColumn(_, _, _)
FindColumn(cols, name, i) ==
    IF i > Len(cols) THEN 0
    ELSE IF cols[i].name = name THEN i ELSE FindColumn(cols, name, i + 1)

\* the loop over the captures: acc = [result, missing_columns]
RECURSIVE MaterializeLoop(_, _, _, _, _)
MaterializeLoop(caps, k, row, cols, acc) ==
    IF k > Len(caps) THEN acc
    ELSE LET column_name == Trim(caps[k])
             ci == FindColumn(cols, column_name, 1)
         IN  IF ci # 0
             THEN LET v == get_cell_value(row, cols[ci].id)
                      value == IF IsSome(v) THEN Unwrap(v) ELSE << >>
                      pattern == <<"{", "{">> \o column_name \o <<"}", "}">>
                  IN  MaterializeLoop(caps, k + 1, row, cols,
                          [acc EXCEPT !.result = Replace(@, pattern, value, 1)])
             ELSE MaterializeLoop(caps, k + 1, row, cols,
                          [acc EXCEPT !.missing_columns = Append(@, column_name)])

\* Ok(prompt) or Err(message)
materialize_prompt(template, row, cols) ==
    LET acc == MaterializeLoop(captures_iter(template, 1), 1, row, cols,
                               [result |-> template, missing_columns |-> << >>])
    IN  IF acc.missing_columns # << >>
        THEN [ok |-> FALSE,
              val |-> <<"Referenced columns not found: ">>
                        \o Join(acc.missing_columns, <<", ">>)]
        ELSE [ok |-> TRUE, val |-> acc.result]

(* ------------------------------ commands ------------------------------- *)
\* rows that update_cell addresses
RowIdx == 0..MaxRow

SetStore(db) ==
    /\ datasets' = db.datasets
    /\ columns' = db.columns
    /\ cells' = db.cells

\* a command process: where it is, which command it runs on which dataset, what
\* the storage call returned
\* val is the Option of what the command returned, kept for export_csv
CmdIdle == [pc |-> "idle", op |-> "none", arg |-> 0, ok |-> TRUE, val |-> None]

\* db.0.lock() without the wait for the mutex
CmdLock_NoExclusion(p) ==
    /\ cmd[p].pc = "idle"
    /\ dbLock' = p
    /\ cmd' = [cmd EXCEPT ![p].pc = "locked"]
    /\ UNCHANGED <<store, connLock, gen, calls, hist>>

\* db.0.lock(): blocks until the DatabaseState mutex is free
CmdLock(p) ==
    /\ cmd[p].pc = "idle"
    /\ dbLock = NoProc
    /\ dbLock' = p
    /\ cmd' = [cmd EXCEPT ![p].pc = "locked"]
    /\ UNCHANGED <<store, connLock, gen, calls, hist>>

\* the storage call of a command: self.conn.lock(), then the statement
InOpVal(p, op, arg, ok, val) ==
    /\ cmd[p].pc = "locked"
    /\ dbLock = p
    /\ connLock = NoProc
    /\ connLock' = p
    /\ cmd' = [cmd EXCEPT ![p] = [pc |-> "inop", op |-> op, arg |-> arg, ok |-> ok,
                                  val |-> val]]
    /\ UNCHANGED <<dbLock, gen, calls, hist>>

InOp(p, op, arg, ok) == InOpVal(p, op, arg, ok, None)

\* the command returns: both guards are dropped
CmdReturn(p) ==
    /\ cmd[p].pc = "inop"
    /\ connLock' = NoProc
    /\ dbLock' = NoProc
    /\ cmd' = [cmd EXCEPT ![p] = CmdIdle]
    /\ UNCHANGED <<store, gen, calls, hist>>

ListDatasets(p) ==
    /\ InOp(p, "list_datasets", 0, TRUE)
    /\ UNCHANGED store

DeleteDataset(p, dataset_id) ==
    LET r == delete_dataset(DB, dataset_id)
    IN  /\ InOp(p, "delete_dataset", dataset_id, r.ok)
        /\ SetStore(r.db)
        /\ UNCHANGED <<nextDs, nextCol>>

DeleteColumn(p, column_id) ==
    LET r == delete_column(DB, column_id)
    IN  /\ InOp(p, "delete_column", column_id, r.ok)
        /\ SetStore(r.db)
        /\ UNCHANGED <<nextDs, nextCol>>

\* value is Option<String>
update_cell(db, dataset_id, column_id, row_index, value) ==
    LET cell0 == Cell_new(dataset_id, column_id, row_index)
        cell  == IF IsSome(value) THEN with_value(cell0, Unwrap(value)) ELSE cell0
    IN  upsert_cell(db, cell)

UpdateCell(p, dataset_id, column_id, row_index, value) ==
    LET r == update_cell(DB, dataset_id, column_id, row_index, value)
    IN  /\ InOp(p, "update_cell", dataset_id, r.ok)
        /\ SetStore(r.db)
        /\ UNCHANGED <<nextDs, nextCol>>

\* import_csv: the parsed table is handed to import_csv_data, whose storage calls
\* all run under the one DatabaseState guard of the command
ImportCsv(p, dataset_id, csv_data) ==
    /\ cmd[p].pc = "locked"
    /\ \E r \in import_csv_data(DB, nextCol, dataset_id, csv_data) :
          /\ InOp(p, "import_csv", dataset_id, r.ok)
          /\ SetStore(r.db)
          /\ nextCol' = r.next
          /\ UNCHANGED nextDs

\* Dataset::new draws the id; the command returns the created record
\* import_csv in its two storage phases, the connection mutex being released
\* between the sub-calls: first the add_column calls for the headers ...
ImportBegin(p, dataset_id, csv_data) ==
    /\ cmd[p].pc = "locked"
    /\ dbLock = p
    /\ connLock = NoProc
    /\ csv_data # << >>
    /\ LET a == ImportColumns(DB, nextCol, dataset_id, csv_data[1], 0)
       IN  /\ cmd' = [cmd EXCEPT ![p] = [pc |-> "importing", op |-> "import_csv",
                                         arg |-> dataset_id, ok |-> a.ok,
                                         val |-> Some(csv_data)]]
           /\ SetStore(a.db)
           /\ nextCol' = a.next
    /\ UNCHANGED <<nextDs, dbLock, connLock, gen, calls, hist>>

\* ... then list_columns and the upsert_cell calls for the fields
ImportFinish(p) ==
    /\ cmd[p].pc = "importing"
    /\ dbLock = p
    /\ connLock = NoProc
    /\ connLock' = p
    /\ IF cmd[p].ok
       THEN \E cols \in list_columns(DB, cmd[p].arg) :
               LET r == ImportCells(DB, cmd[p].arg, cols, Tail(Unwrap(cmd[p].val)), 0, 0)
               IN  /\ cmd' = [cmd EXCEPT ![p].pc = "inop", ![p].ok = r.ok, ![p].val = None]
                   /\ SetStore(r.db)
       ELSE /\ cmd' = [cmd EXCEPT ![p].pc = "inop", ![p].val = None]
            /\ UNCHANGED store
    /\ UNCHANGED <<nextDs, nextCol, dbLock, gen, calls, hist>>

\* get_table_view as the composite it is: get_dataset, list_columns and the
\* list_columns inside get_dataset_rows each take the connection mutex and drop
\* it at their return; the cells query of get_dataset_rows is the last to take it
ViewSubCalls == <<"get_dataset", "list_columns", "list_columns">>

\* a guard that outlives the sub-call that took it
ReleasedBy_Kept(p) == p

\* who holds the connection mutex once a sub-call of caller p has returned
ReleasedBy(p) == NoProc

ViewBegin(p, dataset_id) ==
    /\ cmd[p].pc = "locked"
    /\ cmd[p].op = "none"
    /\ dbLock = p
    /\ cmd' = [cmd EXCEPT ![p] = [pc |-> "subcalls", op |-> "get_table_view",
                                  arg |-> dataset_id, ok |-> TRUE,
                                  val |-> Some(ViewSubCalls)]]
    /\ UNCHANGED <<store, dbLock, connLock, gen, calls, hist>>

\* self.conn.lock() of the next sub-call
SubAcquire(p) ==
    /\ cmd[p].pc = "subcalls"
    /\ Unwrap(cmd[p].val) # << >>
    /\ connLock = NoProc
    /\ connLock' = p
    /\ UNCHANGED <<store, dbLock, cmd, gen, calls, hist>>

\* the sub-call returns
SubRelease(p) ==
    /\ cmd[p].pc = "subcalls"
    /\ Unwrap(cmd[p].val) # << >>
    /\ connLock = p
    /\ connLock' = ReleasedBy(p)
    /\ cmd' = [cmd EXCEPT ![p].val = Some(Tail(Unwrap(@)))]
    /\ UNCHANGED <<store, dbLock, gen, calls, hist>>

\* the cells query and the result of the composite
ViewFinish(p) ==
    /\ cmd[p].pc = "subcalls"
    /\ cmd[p].val = Some(<< >>)
    /\ dbLock = p
    /\ connLock = NoProc
    /\ connLock' = p
    /\ \E v \in get_table_view(DB, cmd[p].arg, None, None) :
          cmd' = [cmd EXCEPT ![p].pc = "inop", ![p].val = v]
    /\ UNCHANGED <<store, dbLock, gen, calls, hist>>

CreateDataset(p, name, description, now) ==
    LET r == create_dataset(DB, Dataset_new(nextDs, name, description, now))
    IN  /\ InOpVal(p, "create_dataset", nextDs, r.ok, Some(r.val))
        /\ SetStore(r.db)
        /\ nextDs' = nextDs + 1
        /\ UNCHANGED nextCol

GetDataset(p, dataset_id) ==
    LET r == get_dataset_Result(DB, dataset_id)
    IN  /\ InOpVal(p, "get_dataset", dataset_id, r.ok, IF r.ok THEN r.val ELSE None)
        /\ UNCHANGED store

\* column_type is the parsed ColumnType, prompt an Option<String>
AddColumn(p, dataset_id, name, column_type, prompt, position) ==
    LET column0 == Column_new(nextCol, dataset_id, name, column_type, position)
        column == IF IsSome(prompt) THEN with_prompt(column0, Unwrap(prompt)) ELSE column0
        r == add_column(DB, column)
    IN  /\ InOpVal(p, "add_column", dataset_id, r.ok, IF r.ok THEN Some(r.val) ELSE None)
        /\ SetStore(r.db)
        /\ nextCol' = nextCol + 1
        /\ UNCHANGED nextDs

\* limit and offset are Option<i32>; val is the Option<TableView> returned
GetTableView(p, dataset_id, limit, offset) ==
    /\ cmd[p].pc = "locked"
    /\ \E v \in get_table_view(DB, dataset_id, limit, offset) :
          InOpVal(p, "get_table_view", dataset_id, TRUE, v)
    /\ UNCHANGED store

ExportCsv(p, dataset_id) ==
    /\ cmd[p].pc = "locked"
    /\ \E r \in export_csv(DB, dataset_id) :
          InOpVal(p, "export_csv", dataset_id, r.ok,
                  IF r.ok THEN Some(r.val) ELSE None)
    /\ UNCHANGED store

(* ------------------------- generation pipeline ------------------------- *)
\* the locals of generate_column_cells; view, op and cell are Options, branch is
\* the arm of the iteration that built the cell ("completed" or "failed"); prior
\* is a history field: the statuses stored at the cell's triple when the persist
\* scope made its upsert
GenIdle ==
    [pc |-> "idle", dataset_id |-> 0, column_id |-> 0, config_ok |-> TRUE,
     prompt_template |-> << >>, total_rows |-> 0, row_index |-> 0,
     completed |-> 0, failed |-> 0,
     view |-> None, fetched |-> None, cell |-> None, branch |-> "none",
     prior |-> {}, op |-> None, result |-> None]

GenErr(g, msg) ==
    [GenIdle EXCEPT !.pc = "returned", !.dataset_id = g.dataset_id,
                    !.column_id = g.column_id, !.config_ok = g.config_ok,
                    !.total_rows = g.total_rows,
                    !.completed = g.completed, !.failed = g.failed,
                    !.result = Some([ok |-> FALSE, val |-> msg])]

\* the first lock scope without the check for zero rows
ValidateWith_NoRowCheck(db, dataset_id, column_id, cols) ==
    LET hit == {i \in 1..Len(cols) : cols[i].id = column_id}
    IN  IF hit = {} THEN [ok |-> FALSE, val |-> "Column not found"]
        ELSE LET column == cols[CHOOSE i \in hit : \A j \in hit : i <= j]
             IN  IF column.column_type # "output"
                 THEN [ok |-> FALSE, val |-> "Can only generate cells for Output columns"]
                 ELSE IF column.prompt = None
                 THEN [ok |-> FALSE, val |-> "Output column has no prompt template"]
                 ELSE [ok |-> TRUE,
                       val |-> [prompt_template |-> Unwrap(column.prompt),
                                total_rows |-> count_rows(db, dataset_id)]]

\* the first lock scope, given the column list the query returned
ValidateWith(db, dataset_id, column_id, cols) ==
    LET hit == {i \in 1..Len(cols) : cols[i].id = column_id}
    IN  IF hit = {} THEN [ok |-> FALSE, val |-> "Column not found"]
        ELSE LET column == cols[CHOOSE i \in hit : \A j \in hit : i <= j]
             IN  IF column.column_type # "output"
                 THEN [ok |-> FALSE, val |-> "Can only generate cells for Output columns"]
                 ELSE IF column.prompt = None
                 THEN [ok |-> FALSE, val |-> "Output column has no prompt template"]
                 ELSE IF count_rows(db, dataset_id) = 0
                 THEN [ok |-> FALSE, val |-> "No rows to generate cells for"]
                 ELSE [ok |-> TRUE,
                       val |-> [prompt_template |-> Unwrap(column.prompt),
                                total_rows |-> count_rows(db, dataset_id)]]

Validate(db, dataset_id, column_id) ==
    {ValidateWith(db, dataset_id, column_id, cols) : cols \in list_columns(db, dataset_id)}

\* a loop that runs one iteration more than total_rows
NextIteration_OneMore(g) ==
    IF g.row_index + 1 <= g.total_rows
    THEN [g EXCEPT !.pc = "fetch", !.row_index = @ + 1,
                   !.view = None, !.fetched = None, !.cell = None,
                   !.branch = "none", !.prior = {}, !.op = None]
    ELSE [GenIdle EXCEPT !.pc = "returned", !.dataset_id = g.dataset_id,
                         !.column_id = g.column_id, !.config_ok = g.config_ok,
                         !.total_rows = g.total_rows,
                         !.completed = g.completed, !.failed = g.failed,
                         !.result = Some([ok |-> TRUE,
                                          val |-> [total |-> g.total_rows,
                                                   completed |-> g.completed,
                                                   failed |-> g.failed]])]

\* the end of `for row_index in 0..total_rows`: next iteration, or Ok(progress)
NextIteration(g) ==
    IF g.row_index + 1 < g.total_rows
    THEN [g EXCEPT !.pc = "fetch", !.row_index = @ + 1,
                   !.view = None, !.fetched = None, !.cell = None,
                   !.branch = "none", !.prior = {}, !.op = None]
    ELSE [GenIdle EXCEPT !.pc = "returned", !.dataset_id = g.dataset_id,
                         !.column_id = g.column_id, !.config_ok = g.config_ok,
                         !.total_rows = g.total_rows,
                         !.completed = g.completed, !.failed = g.failed,
                         !.result = Some([ok |-> TRUE,
                                          val |-> [total |-> g.total_rows,
                                                   completed |-> g.completed,
                                                   failed |-> g.failed]])]

\* after the validation scope: early return, create_provider, loop entry
AfterValidate(g) ==
    LET r == Unwrap(g.op)
    IN  IF ~r.ok THEN GenErr(g, r.val)
        ELSE IF ~g.config_ok THEN GenErr(g, "Failed to create provider")
        ELSE LET started == [g EXCEPT !.op = None,
                                      !.prompt_template = r.val.prompt_template,
                                      !.total_rows = r.val.total_rows,
                                      !.row_index = -1, !.completed = 0, !.failed = 0]
             IN  NextIteration(started)

\* an error cell that is always written at row 0
ErrorCell_RowZero(g, prefix, e) ==
    with_error(Cell_new(g.dataset_id, g.column_id, 0), <<prefix>> \o e)

\* the cell for a row whose prompt could not be materialized / generated
ErrorCell(g, prefix, e) ==
    with_error(Cell_new(g.dataset_id, g.column_id, g.row_index), <<prefix>> \o e)

\* a generated value that is written to column 1 of the dataset
ValueCell_FirstColumn(g, text) ==
    with_value(Cell_new(g.dataset_id, 1, g.row_index), text)

\* the cell for a generated value
ValueCell(g, text) ==
    with_value(Cell_new(g.dataset_id, g.column_id, g.row_index), text)

\* the request handed to provider.generate
Request(g, prompt) == [row_index |-> g.row_index, prompt |-> prompt]

\* a row-fetch scope that issues the call and goes on without awaiting it
AfterFetch_NoAwait(g, cs, h) ==
    IF g.view = None
    THEN [gen |-> GenErr(g, "Failed to get table view"), calls |-> cs, hist |-> h]
    ELSE LET table_view == Unwrap(g.view)
         IN  IF table_view.rows = << >>
             THEN [gen |-> NextIteration(g), calls |-> cs,
                   hist |-> Append(h, [row_index |-> g.row_index, outcome |-> "skipped",
                                       fetched |-> None, cell |-> None,
                                       prior |-> {}])]
             ELSE LET row == table_view.rows[1]
                      m == materialize_prompt(g.prompt_template, row, table_view.columns)
                  IN  [gen |-> NextIteration(g),
                       calls |-> cs \cup {Request(g, m.val)},
                       hist |-> Append(h, [row_index |-> g.row_index,
                                           outcome |-> "skipped",
                                           fetched |-> None, cell |-> None,
                                       prior |-> {}])]

\* a row-fetch scope that leaves alone a row whose cell is already Completed
AfterFetch_SkipCompleted(g, cs, h) ==
    IF g.view = None
    THEN [gen |-> GenErr(g, "Failed to get table view"), calls |-> cs, hist |-> h]
    ELSE LET table_view == Unwrap(g.view)
             skipped == [gen |-> NextIteration(g), calls |-> cs,
                         hist |-> Append(h, [row_index |-> g.row_index,
                                             outcome |-> "skipped",
                                             fetched |-> None, cell |-> None,
                                             prior |-> {}])]
         IN  IF table_view.rows = << >> THEN skipped
             ELSE LET row == table_view.rows[1]
                      m == materialize_prompt(g.prompt_template, row, table_view.columns)
                  IN  IF /\ g.column_id \in DOMAIN row.cells
                         /\ row.cells[g.column_id].status = "completed"
                      THEN skipped
                      ELSE IF m.ok
                      THEN [gen |-> [g EXCEPT !.pc = "generating", !.view = None,
                                              !.fetched = Some(row.index)],
                            calls |-> cs \cup {Request(g, m.val)},
                            hist |-> h]
                      ELSE [gen |-> [g EXCEPT !.pc = "persist", !.view = None,
                                              !.fetched = Some(row.index),
                                              !.branch = "failed",
                                              !.cell = Some(ErrorCell(g,
                                                  "Failed to materialize prompt: ", m.val))],
                            calls |-> cs,
                            hist |-> h]

\* a row-fetch scope that counts an empty fetch as a failed row
AfterFetch_CountEmpty(g, cs, h) ==
    IF g.view = None
    THEN [gen |-> GenErr(g, "Failed to get table view"), calls |-> cs, hist |-> h]
    ELSE LET table_view == Unwrap(g.view)
         IN  IF table_view.rows = << >>
             THEN [gen |-> NextIteration([g EXCEPT !.failed = @ + 1]), calls |-> cs,
                   hist |-> Append(h, [row_index |-> g.row_index, outcome |-> "skipped",
                                       fetched |-> None, cell |-> None,
                                       prior |-> {}])]
             ELSE LET row == table_view.rows[1]
                      m == materialize_prompt(g.prompt_template, row, table_view.columns)
                  IN  IF m.ok
                      THEN [gen |-> [g EXCEPT !.pc = "generating", !.view = None,
                                              !.fetched = Some(row.index)],
                            calls |-> cs \cup {Request(g, m.val)},
                            hist |-> h]
                      ELSE [gen |-> [g EXCEPT !.pc = "persist", !.view = None,
                                              !.fetched = Some(row.index),
                                              !.branch = "failed",
                                              !.cell = Some(ErrorCell(g,
                                                  "Failed to materialize prompt: ", m.val))],
                            calls |-> cs,
                            hist |-> h]

\* after the row-fetch scope: [gen, calls, hist] once the guard is dropped
AfterFetch(g, cs, h) ==
    IF g.view = None
    THEN [gen |-> GenErr(g, "Failed to get table view"), calls |-> cs, hist |-> h]
    ELSE LET table_view == Unwrap(g.view)
         IN  IF table_view.rows = << >>
             THEN [gen |-> NextIteration(g), calls |-> cs,
                   hist |-> Append(h, [row_index |-> g.row_index, outcome |-> "skipped",
                                       fetched |-> None, cell |-> None,
                                       prior |-> {}])]
             ELSE LET row == table_view.rows[1]
                      m == materialize_prompt(g.prompt_template, row, table_view.columns)
                  IN  IF m.ok
                      THEN [gen |-> [g EXCEPT !.pc = "generating", !.view = None,
                                              !.fetched = Some(row.index)],
                            calls |-> cs \cup {Request(g, m.val)},
                            hist |-> h]
                      ELSE [gen |-> [g EXCEPT !.pc = "persist", !.view = None,
                                              !.fetched = Some(row.index),
                                              !.branch = "failed",
                                              !.cell = Some(ErrorCell(g,
                                                  "Failed to materialize prompt: ", m.val))],
                            calls |-> cs,
                            hist |-> h]

\* a provider failure that ends the run with Err
AfterGenerate_Abort(g, resp) ==
    IF resp.ok
    THEN [g EXCEPT !.pc = "persist", !.branch = "completed",
                   !.cell = Some(ValueCell(g, resp.val))]
    ELSE GenErr(g, "AI generation failed")

\* provider.generate(...).await returned resp = [ok, val]
AfterGenerate(g, resp) ==
    IF resp.ok
    THEN [g EXCEPT !.pc = "persist", !.branch = "completed",
                   !.cell = Some(ValueCell(g, resp.val))]
    ELSE [g EXCEPT !.pc = "persist", !.branch = "failed",
                   !.cell = Some(ErrorCell(g, "AI generation failed: ", resp.val))]

\* a persist scope that does not count error cells
AfterPersist_ErrorNotCounted(g, h) ==
    IF ~Unwrap(g.op).ok
    THEN [gen |-> GenErr(g, "Failed to update cell"), hist |-> h]
    ELSE LET counted == IF g.branch = "completed"
                        THEN [g EXCEPT !.completed = @ + 1]
                        ELSE g
         IN  [gen |-> NextIteration(counted),
              hist |-> Append(h, [row_index |-> g.row_index, outcome |-> g.branch,
                                  fetched |-> g.fetched, cell |-> g.cell,
                                  prior |-> g.prior])]

\* a persist scope that takes a failed upsert for a failed row and goes on
AfterPersist_IgnoreFailure(g, h) ==
    LET counted == IF g.branch = "completed" /\ Unwrap(g.op).ok
                   THEN [g EXCEPT !.completed = @ + 1]
                   ELSE [g EXCEPT !.failed = @ + 1]
    IN  [gen |-> NextIteration(counted),
         hist |-> Append(h, [row_index |-> g.row_index, outcome |-> g.branch,
                             fetched |-> g.fetched, cell |-> g.cell,
                             prior |-> g.prior])]

\* after the persist scope: [gen, hist]
AfterPersist(g, h) ==
    IF ~Unwrap(g.op).ok
    THEN [gen |-> GenErr(g, "Failed to update cell"), hist |-> h]
    ELSE LET counted == IF g.branch = "completed"
                        THEN [g EXCEPT !.completed = @ + 1]
                        ELSE [g EXCEPT !.failed = @ + 1]
         IN  [gen |-> NextIteration(counted),
              hist |-> Append(h, [row_index |-> g.row_index, outcome |-> g.branch,
                                  fetched |-> g.fetched, cell |-> g.cell,
                                  prior |-> g.prior])]

\* generate_column_cells(dataset_id, column_id, provider_config, db) is invoked
GenInvoke(dataset_id, column_id, config_ok) ==
    /\ gen.pc = "idle"
    /\ gen' = [GenIdle EXCEPT !.pc = "validate", !.dataset_id = dataset_id,
                              !.column_id = column_id, !.config_ok = config_ok]
    /\ hist' = << >>
    /\ UNCHANGED <<store, dbLock, connLock, cmd, calls>>

\* db.0.lock() of one of the three kinds of lock scope
GenLock ==
    /\ gen.pc \in {"validate", "fetch", "persist"}
    /\ dbLock = NoProc
    /\ dbLock' = GenProc
    /\ UNCHANGED <<store, connLock, cmd, gen, calls, hist>>

GenInScope(pc) ==
    /\ gen.pc = pc
    /\ dbLock = GenProc
    /\ connLock = NoProc
    /\ connLock' = GenProc
    /\ UNCHANGED <<store, dbLock, cmd, calls, hist>>

\* list_columns and count_rows under the lock
GenValidate ==
    /\ GenInScope("validate")
    /\ \E r \in Validate(DB, gen.dataset_id, gen.column_id) :
          gen' = [gen EXCEPT !.op = Some(r)]

\* get_table_view(dataset_id, Some(1), Some(row_index)) under the lock
GenFetch ==
    /\ GenInScope("fetch")
    /\ \E v \in get_table_view(DB, gen.dataset_id, Some(1), Some(gen.row_index)) :
          gen' = [gen EXCEPT !.view = v, !.op = Some([ok |-> TRUE, val |-> None])]

\* upsert_cell(&cell) under the lock
GenPersist ==
    /\ gen.pc = "persist"
    /\ dbLock = GenProc
    /\ connLock = NoProc
    /\ connLock' = GenProc
    /\ LET r == upsert_cell(DB, Unwrap(gen.cell))
       IN  /\ SetStore(r.db)
           /\ gen' = [gen EXCEPT !.op = Some([ok |-> r.ok, val |-> r.val]),
                                 !.prior = {c.status : c \in
                                     {x \in CellSet(DB) : SameTriple(x, Unwrap(gen.cell))}}]
    /\ UNCHANGED <<nextDs, nextCol, dbLock, cmd, calls, hist>>

\* a row-fetch scope whose guard lives on after the block
ScopeEnd_Held(pc) == IF pc = "fetch" THEN GenProc ELSE NoProc

\* who holds the DatabaseState mutex once a lock scope of the invocation has ended
ScopeEnd(pc) == NoProc

GenAfterValidate ==
    /\ gen.pc = "validate"
    /\ connLock = GenProc
    /\ gen' = AfterValidate(gen)
    /\ connLock' = NoProc
    /\ dbLock' = ScopeEnd("validate")
    /\ UNCHANGED <<store, cmd, calls, hist>>

GenAfterFetch ==
    /\ gen.pc = "fetch"
    /\ connLock = GenProc
    /\ LET n == AfterFetch(gen, calls, hist)
       IN  /\ gen' = n.gen
           /\ calls' = n.calls
           /\ hist' = n.hist
    /\ connLock' = NoProc
    /\ dbLock' = ScopeEnd("fetch")
    /\ UNCHANGED <<store, cmd>>

\* the provider answers the outstanding call
GenResponse(resp) ==
    /\ gen.pc = "generating"
    /\ \E c \in calls :
          /\ c.row_index = gen.row_index
          /\ calls' = calls \ {c}
    /\ gen' = AfterGenerate(gen, resp)
    /\ UNCHANGED <<store, dbLock, connLock, cmd, hist>>

GenAfterPersist ==
    /\ gen.pc = "persist"
    /\ connLock = GenProc
    /\ LET n == AfterPersist(gen, hist)
       IN  /\ gen' = n.gen
           /\ hist' = n.hist
    /\ connLock' = NoProc
    /\ dbLock' = ScopeEnd("persist")
    /\ UNCHANGED <<store, cmd, calls>>

\* the caller has received the result
GenDone ==
    /\ gen.pc = "returned"
    /\ gen' = GenIdle
    /\ hist' = << >>
    /\ UNCHANGED <<store, dbLock, connLock, cmd, calls>>

(* ---------------------------- specification ---------------------------- *)
EmptyDB == [datasets |-> {}, columns |-> {}, cells |-> EmptyBag]

\* the database the runs start from: two datasets; dataset 1 with input column A
\* (id 1) and output column O (id 2, prompt "{{A}}"); dataset 2 with an output
\* column without prompt (id 3) holding one cell
SeedDB ==
    LET d1 == create_dataset(EmptyDB, Dataset_new(1, <<"n">>, None, 0)).db
        d2 == create_dataset(d1, Dataset_new(2, <<"m">>, None, 0)).db
        c1 == add_column(d2, Column_new(1, 1, StrA, "input", 0)).db
        c2 == add_column(c1, with_prompt(Column_new(2, 1, StrO, "output", 1), TemplateA)).db
        c3 == add_column(c2, Column_new(3, 2, StrO, "output", 0)).db
    IN  update_cell(c3, 2, 3, 0, Some(StrU)).db

\* inputs of the commands
DsArgs == {1, 2}
ColArgs == {1, 2, 3}
EditTargets == {<<1, 1>>, <<1, 2>>}
EditValues == {Some(StrU)}
CsvInputs == {<< >>, <<<<StrA>>, <<StrG>>>>}
Responses == {[ok |-> TRUE, val |-> StrG], [ok |-> FALSE, val |-> <<"e">>]}

Init ==
    /\ datasets = SeedDB.datasets
    /\ columns = SeedDB.columns
    /\ cells = SeedDB.cells
    /\ nextDs = 3
    /\ nextCol = 4
    /\ dbLock = NoProc
    /\ connLock = NoProc
    /\ cmd = [p \in CmdProcs |-> CmdIdle]
    /\ gen = GenIdle
    /\ calls = {}
    /\ hist = << >>

Next ==
    \/ \E p \in {"c1"} :
          \/ CmdLock(p)
          \/ CmdReturn(p)
          \/ ListDatasets(p)
          \/ \E d \in DsArgs : DeleteDataset(p, d)
          \/ \E c \in ColArgs : DeleteColumn(p, c)
          \/ \E t \in EditTargets : \E r \in RowIdx : \E v \in EditValues :
                UpdateCell(p, t[1], t[2], r, v)
    \/ \E d \in DsArgs : \E c \in ColArgs : \E k \in BOOLEAN : GenInvoke(d, c, k)
    \/ GenLock
    \/ GenValidate
    \/ GenAfterValidate
    \/ GenFetch
    \/ GenAfterFetch
    \/ \E resp \in Responses : GenResponse(resp)
    \/ GenPersist
    \/ GenAfterPersist
    \/ GenDone

Spec == Init /\ [][Next]_vars

\* the storage commands alone, issued by two callers, with update_cell free to
\* combine any dataset id with any column id and to store no value, and with
\* delete_dataset also called on an id that was never handed out
GrowsWithin(n) ==
    BagCardinality(cells') > BagCardinality(cells) => BagCardinality(cells') <= n

NextStore ==
    \E p \in CmdProcs :
        \/ CmdLock(p)
        \/ CmdReturn(p)
        \/ ListDatasets(p)
        \/ \E d \in DsArgs \cup {nextDs} : DeleteDataset(p, d)
        \/ \E c \in ColArgs : DeleteColumn(p, c)
        \/ \E d \in DsArgs : \E c \in ColArgs : \E r \in {0, 1} :
              \E v \in {Some(StrU), None} :
                 /\ UpdateCell(p, d, c, r, v)
                 /\ GrowsWithin(MaxCells)
        \/ \E d \in DsArgs : \E data \in CsvInputs :
              /\ ImportCsv(p, d, data)
              /\ nextCol' <= MaxColumnId + 1
              /\ GrowsWithin(MaxCells)

SpecStore == Init /\ [][NextStore]_vars

\* the writers of cells alone: update_cell, import_csv and generation runs on
\* dataset 1
NextWrites ==
    \/ CmdLock("c1")
    \/ CmdReturn("c1")
    \/ \E r \in RowIdx : \E v \in EditValues : UpdateCell("c1", 1, 2, r, v)
    \/ \E data \in CsvInputs :
          /\ ImportCsv("c1", 1, data)
          /\ nextCol' <= MaxColumnId + 1
    \/ GenInvoke(1, 2, TRUE)
    \/ GenLock
    \/ GenValidate
    \/ GenAfterValidate
    \/ GenFetch
    \/ GenAfterFetch
    \/ \E resp \in Responses : GenResponse(resp)
    \/ GenPersist
    \/ GenAfterPersist
    \/ GenDone

SpecWrites == Init /\ [][NextWrites]_vars

\* successive generation runs on the output column of dataset 1 while the only
\* command is update_cell on the input column: nothing but a run writes column 2
NextRuns ==
    \/ CmdLock("c1")
    \/ CmdReturn("c1")
    \/ \E r \in RowIdx : UpdateCell("c1", 1, 1, r, Some(StrU))
    \/ GenInvoke(1, 2, TRUE)
    \/ GenLock
    \/ GenValidate
    \/ GenAfterValidate
    \/ GenFetch
    \/ GenAfterFetch
    \/ \E resp \in Responses : GenResponse(resp)
    \/ GenPersist
    \/ GenAfterPersist
    \/ GenDone

SpecRuns == Init /\ [][NextRuns]_vars

\* import and export: datasets are created, tables are imported into dataset 1
\* (which has columns) and into the created datasets (which have none), and
\* datasets are exported
CsvTable == <<<<StrA, StrO>>, <<StrG, StrU>>, <<StrU, StrG>>>>
CsvTables == CsvInputs \cup {CsvTable}
CsvTargets == {1} \cup (3..MaxDatasetId)

NextCsv ==
    \E p \in {"c1"} :
        \/ CmdLock(p)
        \/ CmdReturn(p)
        \/ /\ nextDs <= MaxDatasetId
           /\ CreateDataset(p, <<"n">>, None, 1)
        \/ \E d \in CsvTargets : \E data \in CsvTables :
              /\ ImportCsv(p, d, data)
              /\ nextCol' <= MaxColumnId + 2
        \/ \E d \in CsvTargets : ExportCsv(p, d)

SpecCsv == Init /\ [][NextCsv]_vars

\* the materialization step of a run, over prompt templates and row values:
\* dataset 1 has input columns A (id 1) and B (id 2) and the output column O
\* (id 3) whose prompt is the template; row 0 holds the given values
TemplateParts ==
    {<<"x">>, <<"{">>, <<"}">>,
     <<"{", "{", "A", "}", "}">>, <<"{", "{", "B", "}", "}">>,
     <<"{", "{", " ", "A", " ", "}", "}">>,
     <<"{", "{", "C", "}", "}">>, <<"{", "{", "D", "}", "}">>}

RECURSIVE Templates(_)
Templates(n) ==
    IF n = 0 THEN {<< >>}
    ELSE Templates(n - 1) \cup {t \o part : t \in Templates(n - 1), part \in TemplateParts}

ValuesA == {None, Some(StrU), Some(<<"{", "{", "B", "}", "}">>)}
ValuesB == {Some(StrG), Some(<< >>)}

MatDB(template, va, vb) ==
    LET d1 == create_dataset(EmptyDB, Dataset_new(1, <<"n">>, None, 0)).db
        c1 == add_column(d1, Column_new(1, 1, StrA, "input", 0)).db
        c2 == add_column(c1, Column_new(2, 1, <<"B">>, "input", 1)).db
        c3 == add_column(c2, with_prompt(Column_new(3, 1, StrO, "output", 2), template)).db
        a  == IF IsSome(va) THEN update_cell(c3, 1, 1, 0, va).db ELSE c3
    IN  update_cell(a, 1, 2, 0, vb).db

InitMat ==
    /\ \E template \in Templates(MaxParts) : \E va \in ValuesA : \E vb \in ValuesB :
          LET db == MatDB(template, va, vb)
          IN  /\ datasets = db.datasets
              /\ columns = db.columns
              /\ cells = db.cells
    /\ nextDs = 2
    /\ nextCol = 4
    /\ dbLock = NoProc
    /\ connLock = NoProc
    /\ cmd = [p \in CmdProcs |-> CmdIdle]
    /\ gen = GenIdle
    /\ calls = {}
    /\ hist = << >>

NextMat ==
    \/ GenInvoke(1, 3, TRUE)
    \/ GenLock
    \/ GenValidate
    \/ GenAfterValidate
    \/ GenFetch
    \/ GenAfterFetch

SpecMat == InitMat /\ [][NextMat]_vars

\* the dataset commands issued by two callers: datasets are created with the
\* names, descriptions and clock readings below, read back by id (ids that were
\* never handed out included) and deleted
DsNames == {<<"n">>, <<"m">>}
DsDescriptions == {None, Some(<<"d">>)}
Clock == {1}
DsIds == 1..(MaxDatasetId + 1)

NextDatasets ==
    \E p \in CmdProcs :
        \/ CmdLock(p)
        \/ CmdReturn(p)
        \/ /\ nextDs <= MaxDatasetId
           /\ \E name \in DsNames : \E description \in DsDescriptions :
                 \E now \in Clock : CreateDataset(p, name, description, now)
        \/ \E d \in DsIds : GetDataset(p, d)
        \/ \E d \in DsIds : DeleteDataset(p, d)

SpecDatasets == Init /\ [][NextDatasets]_vars

\* the read commands over sparse stores: one caller edits cells of dataset 1 in
\* any column (column 3 belongs to dataset 2), adds a column at position 0,
\* deletes columns, and reads table views (with the limits and offsets below)
\* and exports of the datasets and of an id that was never handed out
Limits == {None, Some(-1), Some(0), Some(1)}
Offsets == {None, Some(-1), Some(1)}
ViewTargets == DsArgs \cup {nextDs}

NextViews ==
    \E p \in {"c1"} :
        \/ CmdLock(p)
        \/ CmdReturn(p)
        \/ \E c \in ColArgs : \E r \in RowIdx :
              /\ UpdateCell(p, 1, c, r, Some(StrU))
              /\ GrowsWithin(MaxCells)
        \/ /\ nextCol <= MaxColumnId
           /\ AddColumn(p, 1, <<"B">>, "input", None, 0)
        \/ \E c \in {1, 2} : DeleteColumn(p, c)
        \/ \E d \in ViewTargets : \E limit \in Limits : \E offset \in Offsets :
              GetTableView(p, d, limit, offset)
        \/ \E d \in ViewTargets : ExportCsv(p, d)

SpecViews == Init /\ [][NextViews]_vars

\* the three writers of cells together: update_cell with and without a value
\* on the output column of dataset 1, an import into dataset 1 while it has no
\* imported column yet, generation runs
CellEdits == {Some(StrU), None}

NextCells ==
    \/ CmdLock("c1")
    \/ CmdReturn("c1")
    \/ \E r \in RowIdx : \E v \in CellEdits : UpdateCell("c1", 1, 2, r, v)
    \/ \E data \in CsvInputs :
          /\ ColumnIds(DB) \subseteq ColArgs
          /\ ImportCsv("c1", 1, data)
    \/ GenInvoke(1, 2, TRUE)
    \/ GenLock
    \/ GenValidate
    \/ GenAfterValidate
    \/ GenFetch
    \/ GenAfterFetch
    \/ \E resp \in Responses : GenResponse(resp)
    \/ GenPersist
    \/ GenAfterPersist
    \/ GenDone

SpecCells == Init /\ [][NextCells]_vars

\* runs under fair scheduling: rows are added to dataset 1 and the output
\* column may be deleted while a run is under way; a command that has taken the
\* lock runs its statement and returns, the invocation gets the mutex when it
\* is free again and again, and every generation call returns
NextLive ==
    \/ NextRuns
    \/ DeleteColumn("c1", 2)

Fairness ==
    /\ WF_vars(CmdReturn("c1"))
    /\ WF_vars(\E r \in RowIdx : UpdateCell("c1", 1, 1, r, Some(StrU)))
    /\ WF_vars(DeleteColumn("c1", 2))
    /\ SF_vars(GenLock)
    /\ WF_vars(GenValidate)
    /\ WF_vars(GenAfterValidate)
    /\ WF_vars(GenFetch)
    /\ WF_vars(GenAfterFetch)
    /\ WF_vars(\E resp \in Responses : GenResponse(resp))
    /\ WF_vars(GenPersist)
    /\ WF_vars(GenAfterPersist)

SpecLive == Init /\ [][NextLive]_vars /\ Fairness

\* cell and column operations next to a dataset operation: one caller edits
\* the output column of dataset 1, adds and deletes columns of dataset 1, imports
\* into it once and deletes dataset 2, while generation runs on dataset 1
NextFrame ==
    \/ \E p \in {"c1"} :
          \/ CmdLock(p)
          \/ CmdReturn(p)
          \/ \E r \in RowIdx : UpdateCell(p, 1, 2, r, Some(StrU))
          \/ /\ nextCol <= MaxColumnId
             /\ AddColumn(p, 1, <<"B">>, "input", None, 0)
          \/ \E c \in {1, 2} : DeleteColumn(p, c)
          \/ \E data \in CsvInputs :
                /\ ColumnIds(DB) \subseteq ColArgs
                /\ ImportCsv(p, 1, data)
          \/ DeleteDataset(p, 2)
    \/ GenInvoke(1, 2, TRUE)
    \/ GenLock
    \/ GenValidate
    \/ GenAfterValidate
    \/ GenFetch
    \/ GenAfterFetch
    \/ \E resp \in Responses : GenResponse(resp)
    \/ GenPersist
    \/ GenAfterPersist
    \/ GenDone

SpecFrame == Init /\ [][NextFrame]_vars

\* one run with nothing else going on: the input column of dataset 1 holds a
\* cell at each row index of a set drawn from StartRowSets (contiguous or not),
\* the output column is empty, and only the invocation takes steps
StartRowSets == SUBSET (0..(MaxRow + 1)) \ {{}}

InitSolo ==
    /\ \E S \in StartRowSets :
          cells = SeedDB.cells (+) SetToBag({with_value(Cell_new(1, 1, r), StrU) : r \in S})
    /\ datasets = SeedDB.datasets
    /\ columns = SeedDB.columns
    /\ nextDs = 3
    /\ nextCol = 4
    /\ dbLock = NoProc
    /\ connLock = NoProc
    /\ cmd = [p \in CmdProcs |-> CmdIdle]
    /\ gen = GenIdle
    /\ calls = {}
    /\ hist = << >>

NextSolo ==
    \/ GenInvoke(1, 2, TRUE)
    \/ GenLock
    \/ GenValidate
    \/ GenAfterValidate
    \/ GenFetch
    \/ GenAfterFetch
    \/ \E resp \in Responses : GenResponse(resp)
    \/ GenPersist
    \/ GenAfterPersist

SpecSolo == InitSolo /\ [][NextSolo]_vars

\* an import in its phases next to a reader and a generation run: caller c1
\* imports a one-column table into dataset 1 once, caller c2 edits the input
\* column and reads table views and exports of dataset 1, and the invocation
\* runs on dataset 1
NextAtomic ==
    \/ \E p \in CmdProcs : CmdLock(p) \/ CmdReturn(p)
    \/ /\ ColumnIds(DB) \subseteq ColArgs
       /\ ImportBegin("c1", 1, <<<<StrA>>, <<StrG>>>>)
    \/ ImportFinish("c1")
    \/ \E r \in RowIdx : UpdateCell("c2", 1, 1, r, Some(StrU))
    \/ GetTableView("c2", 1, None, None)
    \/ ExportCsv("c2", 1)
    \/ GenInvoke(1, 2, TRUE)
    \/ GenLock
    \/ GenValidate
    \/ GenAfterValidate
    \/ GenFetch
    \/ GenAfterFetch
    \/ \E resp \in Responses : GenResponse(resp)
    \/ GenPersist
    \/ GenAfterPersist
    \/ GenDone

SpecAtomic == Init /\ [][NextAtomic]_vars

\* the two mutexes under fair scheduling: caller c1 reads table views of
\* dataset 1 sub-call by sub-call and imports in its phases, caller c2 edits
\* the input column, and the invocation runs on dataset 1
NextLocks ==
    \/ \E p \in CmdProcs : CmdLock(p) \/ CmdReturn(p)
    \/ ViewBegin("c1", 1)
    \/ SubAcquire("c1")
    \/ SubRelease("c1")
    \/ ViewFinish("c1")
    \/ /\ ColumnIds(DB) \subseteq ColArgs
       /\ ImportBegin("c1", 1, <<<<StrA>>, <<StrG>>>>)
    \/ ImportFinish("c1")
    \/ UpdateCell("c2", 1, 1, 0, Some(StrU))
    \/ GenInvoke(1, 2, TRUE)
    \/ GenLock
    \/ GenValidate
    \/ GenAfterValidate
    \/ GenFetch
    \/ GenAfterFetch
    \/ \E resp \in Responses : GenResponse(resp)
    \/ GenPersist
    \/ GenAfterPersist
    \/ GenDone

\* a caller inside a command runs on to its return, the invocation takes each
\* step it can, gets the mutex when it is free again and again, and every
\* generation call returns
FairLocks ==
    /\ WF_vars(\E p \in CmdProcs : CmdReturn(p))
    /\ WF_vars(ViewBegin("c1", 1) \/ SubAcquire("c1") \/ SubRelease("c1")
                  \/ ViewFinish("c1") \/ ImportFinish("c1"))
    /\ WF_vars(UpdateCell("c2", 1, 1, 0, Some(StrU)))
    /\ SF_vars(GenLock)
    /\ WF_vars(GenValidate \/ GenAfterValidate \/ GenFetch \/ GenAfterFetch
                  \/ GenPersist \/ GenAfterPersist
                  \/ \E resp \in Responses : GenResponse(resp))

SpecLocks == Init /\ [][NextLocks]_vars /\ FairLocks

(* ----------------------------- properties ------------------------------ *)
Returned == gen.pc = "returned"
ReturnedOk == Returned /\ Unwrap(gen.result).ok
Running == gen.pc \in {"fetch", "generating", "persist"}
HistIdx(kind) == {i \in 1..Len(hist) : hist[i].outcome = kind}
\* the storage call of the current lock scope has been made, the guard is still held
InScope(pc) == gen.pc = pc /\ connLock = GenProc

\* a step taken by the invocation
GenStep == dbLock = GenProc \/ dbLock' = GenProc \/ gen'.pc # gen.pc

\* C1 as stated: every run that returns an aggregate has completed + failed = total
C1_Original ==
    ReturnedOk =>
        LET r == Unwrap(gen.result).val
        IN  r.completed + r.failed = r.total

\* C1 amended: in the returned aggregate completed + failed + (iterations whose
\* row fetch came back empty) = total, so completed + failed = total exactly when
\* no fetch was empty; total is the count_rows read in the validation scope
C1_Aggregate ==
    /\ ReturnedOk =>
          LET r == Unwrap(gen.result).val
          IN  /\ r.completed + r.failed + Cardinality(HistIdx("skipped")) = r.total
              /\ r.completed = Cardinality(HistIdx("completed"))
              /\ r.failed = Cardinality(HistIdx("failed"))
              /\ r.total = gen.total_rows
    /\ (InScope("validate") /\ Unwrap(gen.op).ok) =>
          Unwrap(gen.op).val.total_rows = count_rows(DB, gen.dataset_id)
    /\ Running => gen.total_rows > 0

C1_Witness ==
    /\ ReturnedOk
    /\ Unwrap(gen.result).val = [total |-> 2, completed |-> 1, failed |-> 1]

\* C2: no step of the invocation (in particular none of a later, failing row)
\* removes or changes the cell persisted for a row that completed earlier in the
\* run, and every cell the run persists is stored exactly once as constructed
C2_Isolation ==
    /\ [][GenStep =>
            \A i \in HistIdx("completed") :
               CopiesIn(Unwrap(hist[i].cell), cells') = CopiesIn(Unwrap(hist[i].cell), cells)]_vars
    /\ [](\A i \in HistIdx("completed") :
             /\ Unwrap(hist[i].cell).status = "completed"
             /\ \E resp \in Responses :
                   resp.ok /\ Unwrap(hist[i].cell).value = Some(resp.val)
             /\ Unwrap(hist[i].cell).row_index = hist[i].row_index)
    /\ []((InScope("persist") /\ Unwrap(gen.op).ok) =>
             CopiesIn(Unwrap(gen.cell), cells) = 1)

C2_Witness ==
    /\ Returned
    /\ \E i \in HistIdx("completed") : \E k \in HistIdx("failed") :
          /\ i < k
          /\ CopiesIn(Unwrap(hist[i].cell), cells) = 1
          /\ Unwrap(hist[i].cell).value = Some(StrG)

\* the reasons for which generate_column_cells returns Err
AbortReasons ==
    {"Column not found", "Can only generate cells for Output columns",
     "Output column has no prompt template", "No rows to generate cells for",
     "Failed to create provider", "Failed to get table view", "Failed to update cell"}

\* C3: a row whose prompt cannot be materialized or whose provider call fails is
\* recorded as an Error cell with a message and counted in failed once; the loop
\* goes on with the next row and the run never returns Err because of it
C3_PerRowErrors ==
    /\ gen.failed = Cardinality(HistIdx("failed"))
    /\ \A i \in HistIdx("failed") :
          LET c == Unwrap(hist[i].cell)
          IN  /\ c.status = "error"
              /\ IsSome(c.error) /\ Len(Unwrap(c.error)) > 1
              /\ c.row_index = hist[i].row_index
              /\ c.dataset_id = gen.dataset_id /\ c.column_id = gen.column_id
    /\ (InScope("persist") /\ Unwrap(gen.op).ok /\ gen.branch = "failed") =>
          CopiesIn(Unwrap(gen.cell), cells) = 1
    /\ Running => Len(hist) = gen.row_index
    /\ ReturnedOk => Len(hist) = gen.total_rows
    /\ (Returned /\ ~Unwrap(gen.result).ok) => Unwrap(gen.result).val \in AbortReasons

C3_Witness ==
    /\ ReturnedOk
    /\ Len(hist) = 2
    /\ hist[1].outcome = "failed" /\ hist[2].outcome = "failed"
    /\ Unwrap(Unwrap(hist[1].cell).error)[1] = "AI generation failed: "
    /\ Unwrap(Unwrap(hist[2].cell).error)[1] = "Failed to materialize prompt: "

\* C4: while a generation call is outstanding the invocation holds neither mutex
C4_NoLockAcrossCall ==
    (calls # {} \/ gen.pc = "generating") =>
        /\ dbLock # GenProc
        /\ connLock # GenProc

\* another command runs its storage call while the generation call is pending
C4_Witness ==
    /\ calls # {}
    /\ cmd["c1"].pc = "inop"
    /\ dbLock = "c1"

\* C5: every stored cell is the only one with its (dataset_id, column_id,
\* row_index) triple, whichever of update_cell, import_csv_data and generation
\* runs wrote to the triple and however often
C5_CellUniqueness ==
    \A x \in BagToSet(cells) :
        /\ cells[x] = 1
        /\ \A y \in BagToSet(cells) : SameTriple(x, y) => x = y

\* a triple written first by a generation run and then by update_cell, in a
\* database that an import has written to as well
C5_Witness ==
    /\ nextCol > 4
    /\ \E x \in BagToSet(cells) : x.value = Some(StrG) /\ x.column_id # 2
    /\ \E i \in HistIdx("completed") :
          LET c == Unwrap(hist[i].cell)
          IN  /\ CopiesIn(c, cells) = 0
              /\ CopiesIn(with_value(Cell_new(c.dataset_id, c.column_id, c.row_index), StrU),
                          cells) = 1

\* the cells upsert_cell is applied to, for the triple of cell c
C6Cells(c) ==
    LET n == Cell_new(c.dataset_id, c.column_id, c.row_index)
    IN  {n, with_value(n, StrU), with_value(n, StrG), with_error(n, <<"e">>)}

\* C6: for every cell c1 that an upsert has stored and every c2 with the same
\* triple, upsert_cell(c2) leaves exactly one cell readable for the triple, equal
\* to c2 in value, status and error; a second upsert_cell(c2) changes nothing,
\* and the cells of other triples are the ones stored before
C6_OverwriteComplete ==
    \A c1 \in BagToSet(cells) : \A c2 \in C6Cells(c1) :
        LET r2 == upsert_cell(DB, c2)
            Other(x) == ~SameTriple(x, c2)
        IN  /\ r2.ok
            /\ upsert_cell(r2.db, c2) = r2
            /\ \A s \in get_column_cells(r2.db, c2.column_id) :
                  LET at == {i \in 1..Len(s) : SameTriple(s[i], c2)}
                  IN  /\ Cardinality(at) = 1
                      /\ \A i \in at : s[i] = c2
            /\ BagFilter(r2.db.cells, Other) = BagFilter(cells, Other)

\* the error cell a run persisted for row 0 has been overwritten by update_cell:
\* the triple holds the user's cell alone, without the error
C6_Witness ==
    \E i \in HistIdx("failed") :
        LET c == Unwrap(hist[i].cell)
            u == with_value(Cell_new(c.dataset_id, c.column_id, c.row_index), StrU)
        IN  /\ CopiesIn(c, cells) = 0
            /\ CopiesIn(u, cells) = 1
            /\ \A x \in BagToSet(cells) : SameTriple(x, c) => x = u

\* the database after the step
DBnext == [datasets |-> datasets', columns |-> columns', cells |-> cells']

\* C7 as stated: a step that deletes a dataset having a column and a cell leaves
\* get_dataset absent, list_columns empty and get_column_cells empty for each of
\* its columns, and leaves the columns and cells of the other datasets unchanged
C7_CascadeDelete ==
    [][\A d \in DsArgs :
          (/\ d \in DatasetIds(DB) /\ d \notin DatasetIds(DBnext)
           /\ \E c \in columns : c.dataset_id = d
           /\ \E x \in BagToSet(cells) : x.dataset_id = d)
          => LET OtherCol(c) == c.dataset_id # d
                 OtherCell(x) == x.dataset_id # d
             IN  /\ get_dataset(DBnext, d) = None
                 /\ list_columns(DBnext, d) = {<< >>}
                 /\ \A c \in columns :
                       c.dataset_id = d => get_column_cells(DBnext, c.id) = {<< >>}
                 /\ {c \in columns' : OtherCol(c)} = {c \in columns : OtherCol(c)}
                 /\ BagFilter(cells', OtherCell) = BagFilter(cells, OtherCell)]_vars

\* the commands that are in a lock scope
Holders == {p \in CmdProcs : cmd[p].pc \in {"locked", "inop"}}

\* C9: delete_dataset and update_cell issued by two callers take effect one
\* whole call at a time, each on the state the previous lock holder left: the
\* caller is alone in a lock scope, the step is the complete effect of its call
\* (an upsert that comes after the delete fails and changes nothing, a delete
\* that comes after the upsert removes the cell), and no state holds a column or
\* a cell of a dataset that is gone
C9_LastWriterWins ==
    /\ [][\A p \in CmdProcs :
             (cmd'[p].pc = "inop" /\ cmd[p].pc # "inop"
                /\ cmd'[p].op \in {"delete_dataset", "update_cell"})
             => /\ Holders = {p} /\ dbLock = p /\ connLock = NoProc
                /\ \A q \in CmdProcs \ {p} : cmd'[q] = cmd[q]
                /\ cmd'[p].op = "delete_dataset" =>
                      DBnext = delete_dataset(DB, cmd'[p].arg).db
                /\ cmd'[p].op = "update_cell" =>
                      /\ cmd'[p].arg \notin DatasetIds(DB) => ~cmd'[p].ok
                      /\ ~cmd'[p].ok => DBnext = DB
                      /\ cmd'[p].ok =>
                            \E c \in ColArgs : \E r \in {0, 1} : \E v \in {Some(StrU), None} :
                               DBnext = update_cell(DB, cmd'[p].arg, c, r, v).db]_vars
    /\ [][DBnext # DB => \E p \in CmdProcs : cmd'[p].pc = "inop" /\ cmd[p].pc = "locked"]_vars
    /\ [](\A p \in Holders : dbLock = p)
    /\ [](\A d \in DsArgs \ DatasetIds(DB) :
             /\ \A c \in columns : c.dataset_id # d
             /\ \A x \in BagToSet(cells) : x.dataset_id # d)

\* update_cell on dataset 1 came after delete_dataset(1) and failed
C9_Witness ==
    /\ cmd["c2"].pc = "inop"
    /\ cmd["c2"].op = "update_cell"
    /\ cmd["c2"].arg = 1
    /\ ~cmd["c2"].ok
    /\ cmd["c1"].pc = "idle"
    /\ 1 \notin DatasetIds(DB)
    /\ 2 \in DatasetIds(DB)

\* the validation conditions, read off the tables
ValidationFails(db, dataset_id, column_id) ==
    \/ ~\E c \in db.columns :
           /\ c.id = column_id /\ c.dataset_id = dataset_id
           /\ c.column_type = "output"
           /\ c.prompt # None
    \/ ~\E x \in BagToSet(db.cells) : x.dataset_id = dataset_id

\* C8: when validation fails the invocation returns Err at once; no step of the
\* validation scope changes a table or issues a generation call
C8_ValidationNoPartialWork ==
    [][(gen.pc = "validate" /\ GenStep) =>
          /\ datasets' = datasets /\ columns' = columns /\ cells' = cells
          /\ calls' = calls /\ calls = {}
          /\ (connLock' = GenProc
                /\ ValidationFails(DB, gen.dataset_id, gen.column_id))
                => ~Unwrap(gen'.op).ok
          /\ (connLock = GenProc /\ ~Unwrap(gen.op).ok) =>
                /\ gen'.pc = "returned"
                /\ Unwrap(gen'.result) = [ok |-> FALSE, val |-> Unwrap(gen.op).val]
                /\ hist' = << >>]_vars

C8_Witness ==
    /\ Returned
    /\ Unwrap(gen.result) = [ok |-> FALSE, val |-> "No rows to generate cells for"]
    /\ gen.dataset_id = 1 /\ gen.column_id = 2

\* C10: rows are processed in the order 0, 1, ..., at most one generation call is
\* outstanding, and it is issued only after the outcomes of all earlier rows
\* have been recorded
C10_Sequential ==
    /\ Cardinality(calls) <= 1
    /\ \A c \in calls :
          /\ gen.pc = "generating"
          /\ c.row_index = gen.row_index
          /\ Len(hist) = c.row_index
    /\ \A i \in 1..Len(hist) : hist[i].row_index = i - 1
    /\ Running => (gen.row_index = Len(hist) /\ gen.row_index < gen.total_rows)
    /\ \A i \in 1..Len(hist) :
          hist[i].outcome # "skipped" => Unwrap(hist[i].cell).row_index = i - 1

C10_Witness ==
    /\ \E c \in calls : c.row_index = 1
    /\ Len(hist) = 1
    /\ hist[1].outcome = "completed"
    /\ CopiesIn(Unwrap(hist[1].cell), cells) = 1

\* C11: a run on (dataset, column) that follows an earlier complete run on the
\* same pair is a full overwrite: when it returns, every row index
\* 0..total-1 was processed in order, none was skipped, and the output column
\* holds exactly one cell at that row index, the cell this run built there,
\* whatever the earlier run had stored
C11_FullOverwrite ==
    ReturnedOk =>
        /\ Len(hist) = gen.total_rows
        /\ \A i \in 1..Len(hist) :
              /\ hist[i].row_index = i - 1
              /\ hist[i].outcome \in {"completed", "failed"}
              /\ LET cell == Unwrap(hist[i].cell)
                     at == BagFilter(cells, LAMBDA c : SameTriple(c, cell))
                 IN  /\ cell.row_index = i - 1
                     /\ cell.column_id = gen.column_id
                     /\ at = SetToBag({cell})

\* a second run has returned; at some row the earlier run had stored a Completed
\* cell and this run stored an Error cell, which is the cell now held
C11_Witness ==
    /\ ReturnedOk
    /\ \E i \in 1..Len(hist) :
          /\ hist[i].prior = {"completed"}
          /\ hist[i].outcome = "failed"
          /\ Unwrap(hist[i].cell) \in BagToSet(cells)
          /\ \A c \in BagToSet(cells) :
                SameTriple(c, Unwrap(hist[i].cell)) => c.status = "error"

\* C12: in every reachable state of the store, count_rows(d) is the number of
\* row indexes r for which some stored cell has dataset_id d and row_index r,
\* however the cells are spread over the columns and whatever delete_column,
\* delete_dataset, update_cell or import_csv did before
C12_DistinctRowCount ==
    \A d \in DsArgs :
        LET used == {r \in {c.row_index : c \in BagToSet(cells)} :
                        \E c \in BagToSet(cells) :
                            c.dataset_id = d /\ c.row_index = r}
        IN  count_rows(DB, d) = Cardinality(used)

\* delete_column has just succeeded and dataset 1 is sparse: two rows, each with
\* a cell in one column only, so that the count is 2 with 2 cells in 2 columns
C12_Witness ==
    /\ \E p \in CmdProcs : /\ cmd[p].pc = "inop"
                           /\ cmd[p].op = "delete_column"
                           /\ cmd[p].ok
    /\ count_rows(DB, 1) = 2
    /\ \E a, b \in BagToSet(cells) :
          /\ a.dataset_id = 1 /\ b.dataset_id = 1
          /\ a.row_index = 0 /\ b.row_index = 1
          /\ a.column_id # b.column_id
          /\ ~\E x \in BagToSet(cells) : x.dataset_id = 1 /\ x \notin {a, b}

\* a table with a header row of at least one name and data rows of the same width
Rectangular(data) ==
    /\ data # << >>
    /\ data[1] # << >>
    /\ \A i \in 1..Len(data) : Len(data[i]) = Len(data[1])

\* the dataset exists and has neither columns nor cells
Fresh(db, d) ==
    /\ d \in DatasetIds(db)
    /\ ~\E c \in db.columns : c.dataset_id = d
    /\ ~\E x \in BagToSet(db.cells) : x.dataset_id = d

C14_ImportPlacement ==
    [][\A p \in CmdProcs : \A d \in CsvTargets : \A data \in CsvTables :
          (ImportCsv(p, d, data) /\ cmd'[p].ok) =>
              LET headers == data[1]
                  created == {Column_new(nextCol + c, d, headers[c + 1], "input", c) :
                                c \in 0..(Len(headers) - 1)}
              IN  /\ columns' = columns \cup created
                  /\ Cardinality(created) = Len(headers)
                  /\ \A r \in 0..(Len(data) - 2) :
                        \A c \in 0..(Len(data[r + 2]) - 1) :
                            c < Len(headers) =>
                                with_value(Cell_new(d, nextCol + c, r),
                                           data[r + 2][c + 1]) \in BagToSet(cells')]_vars

\* the step that ends the row-fetch scope with a fetched row: materialize_prompt
\* is applied to the template, the row and the columns of the view
MatStep ==
    /\ InScope("fetch")
    /\ gen.view # None
    /\ Unwrap(gen.view).rows # << >>
    /\ gen'.pc # gen.pc
MatRow == Unwrap(gen.view).rows[1]
MatCols == Unwrap(gen.view).columns

\* the names between the braces of the placeholders of a template, as written
Placeholders(template) == captures_iter(template, 1)

\* the value a placeholder stands for: the cell value of the column of that
\* name in the row, the empty string when the row has no cell there
ValueOf(name, row, cols) ==
    LET ci == CHOOSE i \in 1..Len(cols) : cols[i].name = name
    IN  unwrap_or_default(get_cell_value(row, cols[ci].id))

\* the template with each placeholder replaced by its value and the rest kept
RECURSIVE Substituted(_, _, _, _)
Substituted(s, i, row, cols) ==
    IF i > Len(s) THEN << >>
    ELSE IF MatchAt(s, i)
         THEN ValueOf(MatchGroup(s, i), row, cols)
                  \o Substituted(s, MatchEnd(s, i), row, cols)
         ELSE <<s[i]>> \o Substituted(s, i + 1, row, cols)

\* C15: when every placeholder name of the template is the exact name of a
\* column, the materialization step issues the template with every placeholder
\* replaced by the row's value for that column (the empty string when the row
\* has no such cell) and with all other text unchanged
C15_Substitution ==
    [][(/\ MatStep
        /\ \A k \in 1..Len(Placeholders(gen.prompt_template)) :
              \E i \in 1..Len(MatCols) :
                  MatCols[i].name = Placeholders(gen.prompt_template)[k])
          => /\ gen'.pc = "generating"
             /\ calls' = calls \cup
                   {Request(gen, Substituted(gen.prompt_template, 1, MatRow, MatCols))}]_vars

\* the placeholder names that match no column, trimmed, each once, in the order
\* of their first occurrence
RECURSIVE MissingNames(_, _, _)
MissingNames(caps, cols, seen) ==
    IF caps = << >> THEN << >>
    ELSE LET name == Trim(Head(caps))
             known == \E i \in 1..Len(cols) : cols[i].name = name
         IN  IF known \/ name \in seen
             THEN MissingNames(Tail(caps), cols, seen)
             ELSE <<name>> \o MissingNames(Tail(caps), cols, seen \cup {name})

\* C16: when some placeholder name matches no column, the materialization step
\* issues no call and yields the error "Referenced columns not found: " followed
\* by the distinct missing names, each once, joined by ", " in first-seen order
C16_MissingNames ==
    [][(MatStep /\ MissingNames(Placeholders(gen.prompt_template), MatCols, {}) # << >>)
          => /\ gen'.pc = "persist"
             /\ calls' = calls
             /\ gen'.cell = Some(ErrorCell(gen, "Failed to materialize prompt: ",
                    <<"Referenced columns not found: ">>
                        \o Join(MissingNames(Placeholders(gen.prompt_template),
                                             MatCols, {}), <<", ">>)))]_vars

\* C17: delete_dataset of an id that is not in the table (never handed out, or
\* deleted before) returns success and leaves datasets, columns and cells as
\* they were
C17_DeleteIdempotent ==
    [][\A p \in CmdProcs : \A d \in DsArgs \cup {nextDs} :
          (DeleteDataset(p, d) /\ d \notin DatasetIds(DB))
              => cmd'[p].ok /\ DBnext = DB]_vars

\* delete_dataset has returned success for the id that was never handed out,
\* and the seeded datasets, their columns and the seeded cell are all there
C17_Witness ==
    /\ \E p \in CmdProcs : /\ cmd[p].pc = "inop"
                           /\ cmd[p].op = "delete_dataset"
                           /\ cmd[p].arg = nextDs
                           /\ cmd[p].ok
    /\ DB = SeedDB

\* the row indexes of dataset d whose cells all lie in column c
OnlyIn(db, d, c) ==
    {r \in {x.row_index : x \in CellSet(db)} :
        /\ \E x \in CellSet(db) : x.dataset_id = d /\ x.row_index = r
        /\ \A x \in CellSet(db) :
              (x.dataset_id = d /\ x.row_index = r) => x.column_id = c}

\* C18: delete_column(c) succeeds, removes the column and exactly the cells whose
\* column_id is c, so that get_column_cells(c) is empty afterwards, the cells of
\* the other columns are unchanged, and count_rows of every dataset drops by the
\* number of its row indexes that had cells in column c only
C18_DeleteColumn ==
    [][\A p \in CmdProcs : \A c \in ColArgs :
          DeleteColumn(p, c) =>
              /\ cmd'[p].ok
              /\ columns' = {k \in columns : k.id # c}
              /\ datasets' = datasets
              /\ get_column_cells(DBnext, c) = {<< >>}
              /\ \A x \in BagToSet(cells) \cup BagToSet(cells') :
                    IF x.column_id = c
                    THEN ~BagIn(x, cells')
                    ELSE CopiesIn(x, cells') = CopiesIn(x, cells)
              /\ \A d \in DsArgs :
                    count_rows(DBnext, d) =
                        count_rows(DB, d) - Cardinality(OnlyIn(DB, d, c))]_vars

\* delete_column(1) has succeeded: column 1 and its cells are gone, while the
\* output column 2 of the same dataset still holds a cell, which is the only
\* row left in dataset 1
C18_Witness ==
    /\ \E p \in CmdProcs : /\ cmd[p].pc = "inop"
                           /\ cmd[p].op = "delete_column"
                           /\ cmd[p].arg = 1
                           /\ cmd[p].ok
    /\ 1 \notin ColumnIds(DB)
    /\ ~\E x \in BagToSet(cells) : x.column_id = 1
    /\ \E x \in BagToSet(cells) : x.dataset_id = 1 /\ x.column_id = 2
    /\ count_rows(DB, 1) = 1

\* C20: import_csv_data with an empty input (no header, no rows) fails, and
\* datasets, columns and cells are exactly as before; no column id is used up
C20_EmptyImport ==
    [][\A p \in CmdProcs : \A d \in DsArgs :
          ImportCsv(p, d, << >>)
              => /\ ~cmd'[p].ok
                 /\ DBnext = DB
                 /\ nextCol' = nextCol]_vars

\* import_csv has failed on a dataset that exists: the input was the empty one
C20_Witness ==
    \E p \in CmdProcs : /\ cmd[p].pc = "inop"
                        /\ cmd[p].op = "import_csv"
                        /\ ~cmd[p].ok
                        /\ cmd[p].arg \in DatasetIds(DB)

\* C19: create_dataset(name, description) succeeds and returns a record whose id
\* no dataset had before; get_dataset of that id then yields a record with that
\* id, the same name and description and both timestamps set to the time of the
\* creation; and get_dataset of an id that no dataset has returns Ok(None)
C19_CreateThenGet ==
    [][\A p \in CmdProcs :
          /\ \A name \in DsNames : \A description \in DsDescriptions : \A now \in Clock :
                CreateDataset(p, name, description, now) =>
                    /\ cmd'[p].ok
                    /\ LET created == Unwrap(cmd'[p].val)
                       IN  /\ created.id \notin DatasetIds(DB)
                           /\ DatasetIds(DBnext) = DatasetIds(DB) \cup {created.id}
                           /\ get_dataset_Result(DBnext, created.id) =
                                 [ok |-> TRUE,
                                  val |-> Some([id |-> created.id, name |-> name,
                                                description |-> description,
                                                created_at |-> now,
                                                updated_at |-> now])]
          /\ \A d \in DsIds :
                (GetDataset(p, d) /\ d \notin DatasetIds(DB))
                    => cmd'[p].ok /\ cmd'[p].val = None]_vars

\* get_dataset has returned the second dataset that was created (id 4), with
\* its name, its description and its timestamps, while the first one (id 3)
\* is stored as well
C19_Witness ==
    /\ cmd["c2"].pc = "inop"
    /\ cmd["c2"].op = "get_dataset"
    /\ cmd["c2"].arg = 4
    /\ cmd["c2"].ok
    /\ cmd["c2"].val = Some([id |-> 4, name |-> <<"m">>, description |-> Some(<<"d">>),
                             created_at |-> 1, updated_at |-> 1])
    /\ 3 \in DatasetIds(DB)

\* the full row list of dataset d read off the cells: one Row per row index in
\* ascending order, holding the dataset's cells of that index by column id
FullRows(db, d) ==
    LET mine == {c \in CellSet(db) : c.dataset_id = d}
        idx == SortedSeq({c.row_index : c \in mine})
    IN  [i \in 1..Len(idx) |->
            [index |-> idx[i],
             cells |-> [k \in {c.column_id : c \in {x \in mine : x.row_index = idx[i]}} |->
                           CHOOSE c \in mine : c.row_index = idx[i] /\ c.column_id = k]]]

\* the elements of rows at the (0-based) positions offset .. offset+limit-1
PageOf(rows, limit, offset) ==
    LET off == IF IsSome(offset) THEN Unwrap(offset) ELSE 0
        keep == {i \in 1..Len(rows) :
                    /\ i - 1 >= off
                    /\ IsSome(limit) => i - 1 <= off + Unwrap(limit) - 1}
        first == CHOOSE i \in keep : \A j \in keep : i <= j
    IN  IF keep = {} THEN << >>
        ELSE [j \in 1..Cardinality(keep) |-> rows[first + j - 1]]

\* C21: the rows of a table view of an existing dataset d are exactly the rows
\* at positions offset .. offset+limit-1 of the full row list of d sorted by
\* row_index (from offset on without limit, from 0 without offset), each Row
\* holding exactly the cells of d with that row_index, keyed by column id
C21_Pagination ==
    [][\A p \in CmdProcs : \A d \in ViewTargets : \A limit \in Limits :
          \A offset \in Offsets :
             (/\ cmd'[p].op = "get_table_view"
              /\ cmd'[p].arg = d
              /\ GetTableView(p, d, limit, offset)
              /\ d \in DatasetIds(DB))
                 => Unwrap(cmd'[p].val).rows = PageOf(FullRows(DB, d), limit, offset)]_vars

\* the column sequence holds each column of dataset d once, by ascending position
OrderedColumns(db, d, cols) ==
    /\ {cols[i] : i \in 1..Len(cols)} = {c \in db.columns : c.dataset_id = d}
    /\ Len(cols) = Cardinality({c \in db.columns : c.dataset_id = d})
    /\ \A i, j \in 1..Len(cols) : i < j => cols[i].position <= cols[j].position

\* C22: get_table_view(d, limit, offset) succeeds; it returns None exactly when
\* no dataset has id d, and otherwise the record of dataset d, the columns of d
\* by ascending position, and the rows get_dataset_rows(d, limit, offset) returns
C22_TableView ==
    [][\A p \in CmdProcs : \A d \in ViewTargets : \A limit \in Limits :
          \A offset \in Offsets :
             (/\ cmd'[p].op = "get_table_view"
              /\ cmd'[p].arg = d
              /\ GetTableView(p, d, limit, offset)) =>
                 /\ cmd'[p].ok
                 /\ (cmd'[p].val = None) <=> (d \notin DatasetIds(DB))
                 /\ d \in DatasetIds(DB) =>
                       LET v == Unwrap(cmd'[p].val)
                       IN  /\ v.dataset = Unwrap(get_dataset(DB, d))
                           /\ v.dataset.id = d
                           /\ OrderedColumns(DB, d, v.columns)
                           /\ v.rows = get_dataset_rows(DB, d, limit, offset)]_vars

\* a table view of dataset 1 has been returned in which column 4, added last at
\* position 0, stands before column 2 (position 1), with one row in the page
C22_Witness ==
    /\ cmd["c1"].pc = "inop"
    /\ cmd["c1"].op = "get_table_view"
    /\ cmd["c1"].arg = 1
    /\ cmd["c1"].val # None
    /\ LET v == Unwrap(cmd["c1"].val)
       IN  /\ \E i, j \in 1..Len(v.columns) :
                 i < j /\ v.columns[i].id = 4 /\ v.columns[j].id = 2
           /\ Len(v.rows) = 1

\* C23: export_csv of an existing dataset d yields the names of the columns of d
\* in position order, then one record per row index that occurs among the cells
\* of d, in ascending order, each record with one field per column: the value of
\* the cell of that column and row, the empty string when there is no such cell
\* or the cell has no value
C23_Export ==
    [][\A p \in CmdProcs : \A d \in ViewTargets :
          (/\ cmd'[p].op = "export_csv"
           /\ cmd'[p].arg = d
           /\ ExportCsv(p, d)
           /\ d \in DatasetIds(DB)) =>
              /\ cmd'[p].ok
              /\ LET out == Unwrap(cmd'[p].val)
                     rows == FullRows(DB, d)
                 IN  \E cols \in list_columns(DB, d) :
                        /\ OrderedColumns(DB, d, cols)
                        /\ Len(out) = 1 + Len(rows)
                        /\ out[1] = [i \in 1..Len(cols) |-> cols[i].name]
                        /\ \A r \in 1..Len(rows) :
                              out[r + 1] = [i \in 1..Len(cols) |->
                                  IF /\ cols[i].id \in DOMAIN rows[r].cells
                                     /\ IsSome(rows[r].cells[cols[i].id].value)
                                  THEN Unwrap(rows[r].cells[cols[i].id].value)
                                  ELSE << >>]]_vars

\* the template with each placeholder, as written, replaced by the value of the
\* column named by the trimmed text between its braces, the rest kept
RECURSIVE SubstitutedTrimmed(_, _, _, _)
SubstitutedTrimmed(s, i, row, cols) ==
    IF i > Len(s) THEN << >>
    ELSE IF MatchAt(s, i)
         THEN ValueOf(Trim(MatchGroup(s, i)), row, cols)
                  \o SubstitutedTrimmed(s, MatchEnd(s, i), row, cols)
         ELSE <<s[i]>> \o SubstitutedTrimmed(s, i + 1, row, cols)

\* some placeholder of the template is written with whitespace inside the braces
Padded(template) ==
    \E k \in 1..Len(Placeholders(template)) :
        Trim(Placeholders(template)[k]) # Placeholders(template)[k]

\* C24: when a template has a placeholder written with whitespace inside the
\* braces and the trimmed text of every placeholder is the name of a column, the
\* materialization step succeeds with every placeholder, exactly as written,
\* replaced by the value of the column of the trimmed name
C24_Whitespace ==
    [][(/\ MatStep
        /\ Padded(gen.prompt_template)
        /\ \A k \in 1..Len(Placeholders(gen.prompt_template)) :
              \E i \in 1..Len(MatCols) :
                  MatCols[i].name = Trim(Placeholders(gen.prompt_template)[k]))
          => /\ gen'.pc = "generating"
             /\ calls' = calls \cup
                   {Request(gen, SubstitutedTrimmed(gen.prompt_template, 1, MatRow, MatCols))}]_vars

\* some placeholder of the template stands for a value that itself contains
\* placeholder text
NestedValue(template, row, cols) ==
    \E k \in 1..Len(Placeholders(template)) :
        Placeholders(ValueOf(Placeholders(template)[k], row, cols)) # << >>

\* C25: materialization is single pass: when every placeholder names a column
\* and a substituted value itself contains {{X}} text, the issued prompt holds
\* that value verbatim at the place of its placeholder, whether or not X is a
\* column referenced by a later placeholder of the template
C25_SinglePass ==
    [][(/\ MatStep
        /\ \A k \in 1..Len(Placeholders(gen.prompt_template)) :
              \E i \in 1..Len(MatCols) :
                  MatCols[i].name = Placeholders(gen.prompt_template)[k]
        /\ NestedValue(gen.prompt_template, MatRow, MatCols))
          => \E req \in calls' \ calls :
                req.prompt = Substituted(gen.prompt_template, 1, MatRow, MatCols)]_vars

\* the cells stored for the output column at the row of the current iteration
OutcomeCells(db) ==
    {c \in CellSet(db) : /\ c.dataset_id = gen.dataset_id
                         /\ c.column_id = gen.column_id
                         /\ c.row_index = gen.row_index}

\* how many times the row x is stored
CopiesOf(B, x) == IF x \in BagToSet(B) THEN B[x] ELSE 0

\* the step in which the persist scope of the iteration runs its upsert
PersistStep == gen.pc = "persist" /\ connLock = NoProc /\ connLock' = GenProc

C27_StatusConsistency ==
    \A c \in CellSet(DB) :
        /\ c.value # None => c.status = "completed"
        /\ c.error # None => c.status = "error"
        /\ c.status = "pending" => (c.value = None /\ c.error = None)
        /\ ~(c.value # None /\ c.error # None)

\* cells of all three kinds are stored at once: one cleared by update_cell
\* (Pending), one imported or edited (Completed), one left by a failed row
C27_Witness ==
    /\ \E c \in CellSet(DB) : c.status = "pending"
    /\ \E c \in CellSet(DB) : c.status = "error" /\ c.error # None
    /\ \E c \in CellSet(DB) : c.status = "completed" /\ c.dataset_id = 1

\* the step that ends a row-fetch scope whose view holds no row
EmptyFetchStep ==
    /\ InScope("fetch")
    /\ gen.view # None
    /\ Unwrap(gen.view).rows = << >>
    /\ gen'.pc # gen.pc \/ gen'.row_index # gen.row_index

\* C28: an iteration whose single-row fetch returns no row is skipped: the step
\* writes no cell, issues no call and leaves completed and failed as they are;
\* the loop goes on with row_index + 1, or the run returns its aggregate when
\* that was the last iteration
C28_EmptyFetchSkipped ==
    [][EmptyFetchStep =>
          /\ DBnext = DB
          /\ calls' = calls
          /\ gen'.completed = gen.completed
          /\ gen'.failed = gen.failed
          /\ \/ /\ gen.row_index + 1 < gen.total_rows
                /\ gen'.pc = "fetch"
                /\ gen'.row_index = gen.row_index + 1
             \/ /\ gen.row_index + 1 = gen.total_rows
                /\ gen'.pc = "returned"
                /\ Unwrap(gen'.result).ok]_vars

\* an iteration has just been skipped and the loop stands at the next row_index
\* with the counters at zero and no call issued
C28_Witness ==
    /\ gen.pc = "fetch"
    /\ gen.row_index = 1
    /\ hist # << >>
    /\ hist[Len(hist)].outcome = "skipped"
    /\ hist[Len(hist)].row_index = 0
    /\ gen.completed = 0 /\ gen.failed = 0
    /\ calls = {}

\* the step that ends a lock scope of the row loop whose storage call failed:
\* the row view could not be fetched, or the upsert of the cell was refused
StorageFailureStep ==
    /\ \/ InScope("fetch") /\ gen.view = None
       \/ InScope("persist") /\ ~Unwrap(gen.op).ok
    /\ gen'.pc # gen.pc \/ gen'.row_index # gen.row_index

\* C29: when a storage call of the row loop fails, the invocation returns an
\* error at the end of that lock scope, with no further iteration: the refused
\* upsert and the return leave every stored cell as it was, no call is issued
\* or outstanding, and a returned invocation has no call outstanding
C29_StorageFailureStops ==
    [][/\ (PersistStep /\ ~Unwrap(gen'.op).ok) => DBnext = DB
       /\ StorageFailureStep =>
             /\ gen'.pc = "returned"
             /\ ~Unwrap(gen'.result).ok
             /\ Unwrap(gen'.result).val \in
                   {"Failed to get table view", "Failed to update cell"}
             /\ DBnext = DB
             /\ calls' = calls
             /\ calls = {}
       /\ (gen.pc = "returned" /\ ~Unwrap(gen.result).ok) =>
             (calls' = {} /\ (gen'.pc # gen.pc => gen'.pc = "idle"))]_vars

\* the run has returned a storage error for row 1 after it had persisted row 0
C29_Witness ==
    /\ Returned
    /\ ~Unwrap(gen.result).ok
    /\ Unwrap(gen.result).val = "Failed to update cell"
    /\ gen.completed + gen.failed = 1
    /\ calls = {}

CallOf(p, op) == cmd[p].pc = "locked" /\ cmd'[p].pc = "inop" /\ cmd'[p].op = op

\* C31: update_cell, add_column, delete_column, import_csv_data and every step
\* of a generation run leave the dataset table as it is: each dataset keeps its
\* name, description, created_at and updated_at
C31_DatasetFrame ==
    [][(\/ \E p \in CmdProcs :
             \E op \in {"update_cell", "add_column", "delete_column", "import_csv"} :
                 CallOf(p, op)
        \/ GenStep)
          => datasets' = datasets]_vars

\* a column has been added to dataset 1, which holds a generated cell, and
\* dataset 1 still is the record it was created as
C31_Witness ==
    /\ cmd["c1"].pc = "inop"
    /\ cmd["c1"].op = "add_column"
    /\ cmd["c1"].ok
    /\ \E c \in CellSet(DB) : c.column_id = 2 /\ c.value = Some(StrG)
    /\ \E d \in datasets : d \in SeedDB.datasets /\ d.id = 1

\* C32: in every iteration that persists a cell, the cell is written at the
\* row_index of the row that was fetched and used to materialize the prompt
C32_RowIdentity ==
    [][PersistStep => Unwrap(gen.cell).row_index = Unwrap(gen.fetched)]_vars

\* the row indexes dataset 1 had when the run started: those of its input cells
StartRows == {c.row_index : c \in {x \in CellSet(DB) : x.dataset_id = 1 /\ x.column_id = 1}}

\* C33: when an undisturbed run has returned its aggregate, every row index the
\* dataset had at the start has a Completed or Error cell in the output column,
\* and the dataset has no row index it did not have at the start
C33_RowCoverage ==
    ReturnedOk =>
        /\ \A r \in StartRows :
              \E c \in CellSet(DB) : /\ c.dataset_id = gen.dataset_id
                                      /\ c.column_id = gen.column_id
                                      /\ c.row_index = r
                                      /\ c.status \in {"completed", "error"}
        /\ \A c \in CellSet(DB) : c.dataset_id = gen.dataset_id => c.row_index \in StartRows

\* C34: every stored column belongs to a stored dataset and every stored cell
\* to a stored dataset and a stored column; an upsert of a run that was refused
\* is one whose dataset or column is gone, and it has stored no cell
C34_ReferentialIntegrity ==
    /\ \A c \in DB.columns : c.dataset_id \in DatasetIds(DB)
    /\ \A c \in CellSet(DB) : /\ c.dataset_id \in DatasetIds(DB)
                               /\ c.column_id \in ColumnIds(DB)
    /\ (InScope("persist") /\ ~Unwrap(gen.op).ok) =>
          /\ gen.dataset_id \notin DatasetIds(DB) \/ gen.column_id \notin ColumnIds(DB)
          /\ OutcomeCells(DB) = {}

\* the upsert of a run came after delete_column of its output column and was
\* refused, while the dataset and its other column are still stored
C34_Witness ==
    /\ InScope("persist")
    /\ ~Unwrap(gen.op).ok
    /\ gen.dataset_id \in DatasetIds(DB)
    /\ gen.column_id \notin ColumnIds(DB)
    /\ 1 \in ColumnIds(DB)

\* C35: the column of every stored cell belongs to the dataset of the cell
C35_Agreement ==
    \A c \in CellSet(DB) :
        \A col \in DB.columns : col.id = c.column_id => col.dataset_id = c.dataset_id

\* C36: for every dataset, with or without columns, count_rows is the number
\* of rows get_dataset_rows returns without limit and offset
C36_CountMatchesRows ==
    \A d \in DatasetIds(DB) : count_rows(DB, d) = Len(get_dataset_rows(DB, d, None, None))

\* caller p is inside a command: between taking the mutex and returning
InCommand(p) == cmd[p].pc \in {"locked", "importing", "inop"}

\* the step is a storage sub-step of a command of caller p
SubStepOf(p) ==
    /\ cmd[p].pc \in {"locked", "importing"}
    /\ cmd'[p].pc \in {"importing", "inop"}
    /\ cmd'[p].pc # cmd[p].pc

\* the step is the storage call of a lock scope of the generation run
GenSubStep == connLock # GenProc /\ connLock' = GenProc

\* C37: a caller inside a command holds the DatabaseState mutex; a storage
\* sub-step of a command is taken while no other caller is inside a command and
\* the run is in none of its lock scopes, and a storage call of the run while no
\* caller is inside a command: in particular a table view or an export is never
\* read between the two phases of an import
C37_Atomicity ==
    /\ [](\A p \in CmdProcs : InCommand(p) => dbLock = p)
    /\ [][\A p \in CmdProcs :
             SubStepOf(p) => /\ \A q \in CmdProcs \ {p} : ~InCommand(q)
                             /\ dbLock = p
                             /\ connLock \in {NoProc, p}]_vars
    /\ [][GenSubStep => /\ \A q \in CmdProcs : ~InCommand(q)
                         /\ dbLock = GenProc]_vars

\* the import is between its phases (its column is stored, its cell is not)
\* while the reader waits for the mutex and a generation call is outstanding
C37_Witness ==
    /\ cmd["c1"].pc = "importing"
    /\ cmd["c1"].ok
    /\ 4 \in ColumnIds(DB)
    /\ \A c \in CellSet(DB) : c.value # Some(StrG)
    /\ cmd["c2"].pc = "idle"
    /\ calls # {}

\* caller p is inside a command, its sub-calls included
Inside(p) == cmd[p].pc \in {"locked", "subcalls", "importing", "inop"}

\* the invocation is in a lock scope and has not been given the mutex yet
GenWaits == gen.pc \in {"validate", "fetch", "persist"} /\ dbLock # GenProc

C39_RunFrame ==
    [][GenStep =>
          /\ datasets' = datasets
          /\ columns' = columns
          /\ \A c \in CellSet(DB) \cup CellSet(DBnext) :
                (c.dataset_id # gen.dataset_id \/ c.column_id # gen.column_id)
                    => CopiesOf(cells', c) = CopiesOf(cells, c)]_vars

\* the run has persisted a generated value for row 0 and the input cell it read
\* as well as the cell of the other dataset are stored as before
C39_Witness ==
    /\ InScope("persist")
    /\ Unwrap(gen.op).ok
    /\ gen.branch = "completed"
    /\ gen.row_index = 0
    /\ with_value(Cell_new(1, 1, 0), StrU) \in CellSet(DB)
    /\ with_value(Cell_new(2, 3, 0), StrU) \in CellSet(DB)
    /\ with_value(Cell_new(1, 2, 0), StrG) \in CellSet(DB)

\* C40: the rows returned for a supplied limit, zero and negative limits
\* included, are at most max(limit, 0)
C40_LimitBound ==
    [][\A p \in CmdProcs : \A d \in ViewTargets : \A limit \in Limits \ {None} :
          \A offset \in Offsets :
             (/\ cmd'[p].op = "get_table_view"
              /\ cmd'[p].arg = d
              /\ GetTableView(p, d, limit, offset)
              /\ d \in DatasetIds(DB))
                 => Len(Unwrap(cmd'[p].val).rows)
                        <= (IF Unwrap(limit) > 0 THEN Unwrap(limit) ELSE 0)]_vars

====
